---------------------------- MODULE Spec2Model ----------------------------
(***************************************************************************)
(* Model of the approval-gated learning loop (src/learning/feedback_manager*)
(* .py): the pattern store, the approval workflow, the application of      *)
(* approved corrections to extracted facts and the success-rate tracking.  *)
(*                                                                         *)
(* Texts are sequences of one-character strings, so that lower(), split()  *)
(* and the substring test are computed as Python computes them.  Success   *)
(* rates are exact decimals num / 10^exp kept in lowest terms.             *)
(***************************************************************************)
EXTENDS Integers, Sequences, FiniteSets, TLC

(***************************************************************************)
(* Bounds of the model.                                                    *)
(***************************************************************************)
MaxUpdates == 4       \* decimal digits of the success rates over the whole store
MaxApplied == 2       \* corrections one fact may accumulate
MaxRated == 1         \* stored patterns whose success rate has left 1.0
MaxDay == 9           \* the last day a datetime can hold
NumTasks == 2         \* coroutines calling into the pattern store
MaxFacts == 2         \* facts extracted from the documents of one run
MaxCount == 3         \* applications a stored pattern may count

(***************************************************************************)
(* Texts.                                                                  *)
(***************************************************************************)
Space == " "

\* the upper-case letters of the texts of the model, with their lower case
UpperToLower ==
    [c \in {"A", "B", "D", "H", "O", "P"} |->
        CASE c = "A" -> "a" [] c = "B" -> "b" [] c = "D" -> "d"
          [] c = "H" -> "h" [] c = "O" -> "o" [] c = "P" -> "p"]

LowerChar(c) == IF c \in DOMAIN UpperToLower THEN UpperToLower[c] ELSE c

\* str.lower()
Lower(s) == [i \in 1..Len(s) |-> LowerChar(s[i])]

\* the test `sub in s` on strings
Contains(sub, s) ==
    \E i \in 0..(Len(s) - Len(sub)) : SubSeq(s, i + 1, i + Len(sub)) = sub

RECURSIVE SplitFrom(_, _, _)
\* tokens of s from position i on, cur being the token read so far
SplitFrom(s, i, cur) ==
    IF i > Len(s)
    THEN IF cur = <<>> THEN {} ELSE {cur}
    ELSE IF s[i] = Space
         THEN (IF cur = <<>> THEN {} ELSE {cur}) \cup SplitFrom(s, i + 1, <<>>)
         ELSE SplitFrom(s, i + 1, Append(cur, s[i]))

\* set(s.split())
Tokens(s) == SplitFrom(s, 1, <<>>)

(***************************************************************************)
(* Dictionaries: functions whose domain is the set of keys present.        *)
(***************************************************************************)
EmptyDict == <<>>

\* d.get(k, default)
Get(d, k, default) == IF k \in DOMAIN d THEN d[k] ELSE default

\* d.update(e): the entries of e win
Update(d, e) == e @@ d

\* d[k] = v
Put(d, k, v) == (k :> v) @@ d

None == <<"None">>

(***************************************************************************)
(* Decimals num / 10^exp in lowest terms (exp minimal).                    *)
(***************************************************************************)
RECURSIVE Pow10(_)
Pow10(n) == IF n = 0 THEN 1 ELSE 10 * Pow10(n - 1)

RECURSIVE Norm(_)
Norm(d) == IF d.exp > 0 /\ d.num % 10 = 0
           THEN Norm([num |-> d.num \div 10, exp |-> d.exp - 1])
           ELSE d

Dec(n, e) == Norm([num |-> n, exp |-> e])

IntMax(a, b) == IF a > b THEN a ELSE b

DecAdd(a, b) ==
    LET e == IntMax(a.exp, b.exp)
    IN  Dec(a.num * Pow10(e - a.exp) + b.num * Pow10(e - b.exp), e)

DecMul(a, b) == Dec(a.num * b.num, a.exp + b.exp)

DecGeq(a, b) ==
    LET e == IntMax(a.exp, b.exp)
    IN  a.num * Pow10(e - a.exp) >= b.num * Pow10(e - b.exp)

One == Dec(1, 0)
Zero == Dec(0, 0)


DecSub(a, b) ==
    LET e == IntMax(a.exp, b.exp)
    IN  Dec(a.num * Pow10(e - a.exp) - b.num * Pow10(e - b.exp), e)

(***************************************************************************)
(* Time: a datetime is a number of half hours since day 0.                 *)
(***************************************************************************)
Hour == 2
Day == 24 * Hour

\* datetime(..., day, hour, 0)
At(day, hour) == day * Day + hour * Hour

\* datetime.date()
DateOf(ts) == ts \div Day

\* a replace that sets the hour and keeps the minutes
ReplaceHour_keeps_minutes(ts, h) == DateOf(ts) * Day + h * Hour + (ts % Hour)

\* datetime.replace(hour=h, minute=0, second=0, microsecond=0)
ReplaceHour(ts, h) == DateOf(ts) * Day + h * Hour

(***************************************************************************)
(* Inputs of the operations.                                               *)
(***************************************************************************)
FactTypes == {<<"m">>, <<"l">>}
Actors == {"admin"}
Now == "now"

Submission(orig, corr, ctx) == [original |-> orig, correction |-> corr, context |-> ctx]

\* the corrections callers submit: original text, correction and context
Submissions ==
    {Submission(<<"a", " ", "b">>, <<"a", "b">>, ("fact_type" :> <<"m">>)),
     Submission(<<"a", " ", "b">>, <<"a", "b">>,
                ("fact_type" :> <<"m">>) @@ ("approved" :> TRUE)),
     Submission(<<"A", "B">>, <<"b", " ", "a">>, ("fact_type" :> <<"m">>))}

\* the facts of one extraction, as the extractor constructs them
ExtractedFacts ==
    <<[fact |-> <<"a", "b">>, fact_type |-> <<"m">>, confidence |-> [num |-> 8, exp |-> 1],
       source_doc |-> <<"p">>, timestamp |-> At(1, 8)],
      [fact |-> <<"A", " ", "b">>, fact_type |-> <<"l">>, confidence |-> [num |-> 8, exp |-> 1],
       source_doc |-> <<"p">>, timestamp |-> At(1, 8)]>>

\* a pattern id no submission produces
MissingId == <<"x">>

(***************************************************************************)
(* State.                                                                  *)
(***************************************************************************)
VARIABLES
    feedback_database,   \* the pattern store, in insertion order
    application_stats,   \* pattern id -> number of applications
    facts,               \* the extracted facts handed to apply_corrections
    pc,                  \* task -> the call it is inside
    loc,                 \* task -> the local variables of that call
    running,             \* the task the event loop is running, 0 when none
    documents,           \* the clinical documents of the run being processed
    clinical_timeline,   \* what the last build_timeline gave, NotBuilt before it
    cache_manager,       \* the fields of the RedisCacheManager
    redis,               \* the keys the Redis server holds, with their values
    returned             \* what the last call on the cache or the engine gave

storeVars == <<feedback_database, application_stats, facts>>
taskVars == <<pc, loc, running>>
cacheVars == <<cache_manager, redis, returned>>
vars == <<feedback_database, application_stats, facts, pc, loc, running, documents, clinical_timeline,
          cache_manager, redis, returned>>

\* no timeline has been built
NotBuilt == [built |-> FALSE]

\* no call has returned yet
NoCall == [called |-> FALSE]

\* RedisCacheManager(redis_url), before connect()
RedisCacheManager ==
    [client |-> <<"None">>, connected |-> FALSE, cache_hits |-> 0, cache_misses |-> 0]

\* the cache takes no part: never connected, the server empty
CacheUnused ==
    /\ cache_manager = RedisCacheManager
    /\ redis = <<>>
    /\ returned = NoCall

success_threshold == Dec(7, 1)

\* LearningFeedback(...): a new pattern record
LearningFeedback(uid, orig, corr, ctx, h, by) ==
    [uncertainty_id      |-> uid,
     original_extraction |-> orig,
     correction          |-> corr,
     context             |-> ctx,
     pattern_hash        |-> h,
     created_by          |-> by,
     success_rate        |-> One,
     applied_count       |-> 0]

\* HybridClinicalFact(...): a freshly extracted fact
HybridClinicalFact(text, source_doc, timestamp, conf, type, ctx) ==
    [fact               |-> text,
     source_doc         |-> source_doc,
     timestamp          |-> timestamp,
     absolute_timestamp |-> timestamp,
     confidence         |-> [base |-> conf, factors |-> <<>>],
     fact_type          |-> type,
     clinical_context   |-> ctx,
     normalized_value   |-> None,
     severity           |-> None,
     correction_applied |-> FALSE,
     correction_source  |-> None]

\* f"{fact_type}_{original}_{correction}"; md5 is taken to be injective, so
\* the formatted string stands for its digest
PatternHash(ctx, orig, corr) ==
    Get(ctx, "fact_type", <<"u">>) \o <<"_">> \o orig \o <<"_">> \o corr

\* position of pattern id h in the store, 0 when absent
IndexOf(db, h) ==
    IF \E i \in 1..Len(db) : db[i].pattern_hash = h
    THEN CHOOSE i \in 1..Len(db) : db[i].pattern_hash = h
    ELSE 0

PatternIds(db) == {db[i].pattern_hash : i \in 1..Len(db)}

Tasks == 1..NumTasks

\* the locals of a call: pattern id, position in its loop, correction found
NoLocals == [h |-> None, k |-> 0, correction |-> [pattern_id |-> None]]

TasksIdle ==
    /\ pc = [t \in Tasks |-> "idle"]
    /\ loc = [t \in Tasks |-> NoLocals]
    /\ running = 0

Init ==
    /\ TasksIdle
    /\ feedback_database = <<>>
    /\ application_stats = EmptyDict
    /\ documents = <<>>
    /\ clinical_timeline = NotBuilt
    /\ CacheUnused
    /\ facts = [i \in 1..Len(ExtractedFacts) |->
                    HybridClinicalFact(ExtractedFacts[i].fact, ExtractedFacts[i].source_doc,
                                       ExtractedFacts[i].timestamp,
                                       ExtractedFacts[i].confidence,
                                       ExtractedFacts[i].fact_type, EmptyDict)]

(***************************************************************************)
(* add_feedback                                                            *)
(***************************************************************************)
add_feedback(db, uid, orig, corr, ctx, by) ==
    LET h == PatternHash(ctx, orig, corr)
        i == IndexOf(db, h)
    IN  IF i # 0
        THEN [db  |-> [db EXCEPT ![i].context = Update(@, ctx)],
              ret |-> h]
        ELSE [db  |-> Append(db, LearningFeedback(uid, orig, corr, ctx, h, by)),
              ret |-> h]

AddFeedback ==
    \E s \in Submissions, by \in Actors :
        LET r == add_feedback(feedback_database, "unc", s.original, s.correction,
                              s.context, by)
        IN  /\ feedback_database' = r.db
            /\ UNCHANGED <<application_stats, facts, pc, loc, running, documents, clinical_timeline, cacheVars>>

(***************************************************************************)
(* approve_pattern, reject_pattern                                         *)
(***************************************************************************)
RECURSIVE PutAll(_, _)
\* the assignments d[k] = v of a list of <<k, v>>, in order
PutAll(d, writes) ==
    IF writes = <<>> THEN d
    ELSE PutAll(Put(d, Head(writes)[1], Head(writes)[2]), Tail(writes))

\* the assignments of approve_pattern to feedback.context
approve_writes(by) ==
    << <<"approved", TRUE>>, <<"approved_by", by>>, <<"approved_at", Now>> >>

\* the assignments of reject_pattern to feedback.context
reject_writes(by, reason) ==
    << <<"approved", FALSE>>, <<"rejected", TRUE>>, <<"rejected_by", by>>,
       <<"rejected_at", Now>>, <<"rejection_reason", reason>> >>

approve_pattern(db, h, by) ==
    LET i == IndexOf(db, h)
    IN  IF i = 0
        THEN [db |-> db, ret |-> FALSE]
        ELSE [db  |-> [db EXCEPT ![i].context = PutAll(@, approve_writes(by))],
              ret |-> TRUE]

reject_pattern(db, h, by, reason) ==
    LET i == IndexOf(db, h)
    IN  IF i = 0
        THEN [db |-> db, ret |-> FALSE]
        ELSE [db  |-> [db EXCEPT ![i].context = PutAll(@, reject_writes(by, reason))],
              ret |-> TRUE]

ApprovePattern ==
    \E h \in PatternIds(feedback_database) \cup {MissingId}, by \in Actors :
        LET r == approve_pattern(feedback_database, h, by)
        IN  /\ feedback_database' = r.db
            /\ UNCHANGED <<application_stats, facts, pc, loc, running, documents, clinical_timeline, cacheVars>>

RejectPattern ==
    \E h \in PatternIds(feedback_database) \cup {MissingId}, by \in Actors :
        LET r == reject_pattern(feedback_database, h, by, "wrong")
        IN  /\ feedback_database' = r.db
            /\ UNCHANGED <<application_stats, facts, pc, loc, running, documents, clinical_timeline, cacheVars>>

(***************************************************************************)
(* update_success_rate                                                     *)
(***************************************************************************)
alpha == Dec(1, 1)

\* an update with the two weights exchanged
update_success_rate_weights_swapped(db, h, success) ==
    LET i == IndexOf(db, h)
        new_value == IF success THEN One ELSE Zero
    IN  IF i = 0
        THEN db
        ELSE [db EXCEPT ![i].success_rate =
                 DecAdd(DecMul(alpha, @), DecMul(DecSub(One, alpha), new_value))]

\* an update that withdraws the approval of a pattern fallen below the threshold
update_success_rate_auto_disable(db, h, success) ==
    LET i == IndexOf(db, h)
        new_value == IF success THEN One ELSE Zero
    IN  IF i = 0
        THEN db
        ELSE LET rate == DecAdd(DecMul(DecSub(One, alpha), db[i].success_rate),
                                DecMul(alpha, new_value))
             IN  IF DecGeq(rate, success_threshold)
                 THEN [db EXCEPT ![i].success_rate = rate]
                 ELSE [db EXCEPT ![i].success_rate = rate,
                                 ![i].context = Put(@, "approved", FALSE)]

update_success_rate(db, h, success) ==
    LET i == IndexOf(db, h)
        new_value == IF success THEN One ELSE Zero
    IN  IF i = 0
        THEN db
        ELSE [db EXCEPT ![i].success_rate =
                 DecAdd(DecMul(DecSub(One, alpha), @), DecMul(alpha, new_value))]

RECURSIVE RateDigits(_)
\* decimal digits held by the success rates of the store
RateDigits(db) ==
    IF db = <<>> THEN 0 ELSE Head(db).success_rate.exp + RateDigits(Tail(db))

UpdateSuccessRate ==
    \E h \in PatternIds(feedback_database) \cup {MissingId}, success \in BOOLEAN :
        LET db == update_success_rate(feedback_database, h, success)
        IN  /\ RateDigits(db) <= MaxUpdates
            /\ Cardinality({i \in 1..Len(db) : db[i].success_rate # One}) <= MaxRated
            /\ feedback_database' = db
            /\ UNCHANGED <<application_stats, facts, pc, loc, running, documents, clinical_timeline, cacheVars>>

(***************************************************************************)
(* apply_corrections                                                       *)
(***************************************************************************)
\* _is_similar_context
is_similar_context(fact, feedback) ==
    IF fact.fact_type # Get(feedback.context, "fact_type", None)
    THEN FALSE
    ELSE IF Contains(Lower(feedback.original_extraction), Lower(fact.fact))
    THEN TRUE
    ELSE LET original_tokens == Tokens(Lower(feedback.original_extraction))
             fact_tokens     == Tokens(Lower(fact.fact))
         IN  IF original_tokens = {}
             THEN FALSE
             ELSE \* overlap / len(original_tokens) >= 0.70
                  10 * Cardinality(original_tokens \cap fact_tokens)
                      >= 7 * Cardinality(original_tokens)

\* an approval test that lets every pattern through
is_approved_anything(feedback) == TRUE

\* the approval test of _find_matching_approved_correction
is_approved(feedback) == Get(feedback.context, "approved", FALSE)

\* a success-rate test that lets every rate through
meets_threshold_anything(feedback) == TRUE

\* a success-rate test that only a pattern never applied before passes
meets_threshold_until_applied(feedback) ==
    DecGeq(feedback.success_rate, success_threshold) /\ feedback.applied_count = 0

\* the success-rate test of _find_matching_approved_correction
meets_threshold(feedback) == DecGeq(feedback.success_rate, success_threshold)

\* the None that _find_matching_approved_correction returns
NoCorrection == [pattern_id |-> None, corrected_text |-> <<>>, success_rate |-> Zero]

RECURSIVE FindFrom(_, _, _)
\* the loop of _find_matching_approved_correction from store position i on
FindFrom(fact, db, i) ==
    IF i > Len(db)
    THEN NoCorrection
    ELSE IF ~ is_approved(db[i])
    THEN FindFrom(fact, db, i + 1)
    ELSE IF is_similar_context(fact, db[i]) /\ meets_threshold(db[i])
    THEN [pattern_id     |-> db[i].pattern_hash,
          corrected_text |-> db[i].correction,
          success_rate   |-> db[i].success_rate]
    ELSE FindFrom(fact, db, i + 1)

find_matching_approved_correction(fact, db) == FindFrom(fact, db, 1)

\* a loop body that leaves the confidence as it was
ApplyOne_confidence_kept(fact, correction) ==
    [fact EXCEPT
        !.fact = correction.corrected_text,
        !.correction_applied = TRUE,
        !.correction_source = correction.pattern_id,
        !.clinical_context =
            Put(Put(Put(@, "original_extraction", fact.fact),
                    "correction_applied", TRUE),
                "correction_pattern", correction.pattern_id)]

\* the body of the loop of apply_corrections for a fact with a correction
ApplyOne(fact, correction) ==
    [fact EXCEPT
        !.fact = correction.corrected_text,
        !.confidence.factors = Append(@, correction.success_rate),
        !.correction_applied = TRUE,
        !.correction_source = correction.pattern_id,
        !.clinical_context =
            Put(Put(Put(@, "original_extraction", fact.fact),
                    "correction_applied", TRUE),
                "correction_pattern", correction.pattern_id)]

RECURSIVE ApplyFrom(_, _, _, _)
\* the loop of apply_corrections from fact i on
ApplyFrom(fs, db, stats, i) ==
    IF i > Len(fs)
    THEN [facts |-> fs, db |-> db, stats |-> stats]
    ELSE LET correction == find_matching_approved_correction(fs[i], db)
         IN  IF correction = NoCorrection
             THEN ApplyFrom(fs, db, stats, i + 1)
             ELSE LET j == IndexOf(db, correction.pattern_id)
                  IN  ApplyFrom(
                        [fs EXCEPT ![i] = ApplyOne(fs[i], correction)],
                        IF j # 0 THEN [db EXCEPT ![j].applied_count = @ + 1] ELSE db,
                        Put(stats, correction.pattern_id,
                            Get(stats, correction.pattern_id, 0) + 1),
                        i + 1)

apply_corrections(fs, db, stats) == ApplyFrom(fs, db, stats, 1)

ApplyCorrections ==
    LET r == apply_corrections(facts, feedback_database, application_stats)
    IN  /\ \A i \in 1..Len(r.facts) : Len(r.facts[i].confidence.factors) <= MaxApplied
        /\ facts' = r.facts
        /\ feedback_database' = r.db
        /\ application_stats' = r.stats
        /\ UNCHANGED <<pc, loc, running, documents, clinical_timeline, cacheVars>>

Next ==
    \/ AddFeedback
    \/ ApprovePattern
    \/ RejectPattern
    \/ UpdateSuccessRate
    \/ ApplyCorrections

Spec == Init /\ [][Next]_vars

(***************************************************************************)
(* The same calls, statement by statement, made by coroutines of one event *)
(* loop (api/app.py: every endpoint is an `async def` that calls the       *)
(* manager directly).  The loop switches task only where the running task  *)
(* awaits or returns.                                                      *)
(***************************************************************************)
\* a reject_pattern that awaits between its first two assignments
AwaitPoints_in_reject == {<<"reject", 1>>}

\* the statements of approve_pattern, reject_pattern and apply_corrections
\* after which the method awaits: none, the three are plain `def`s
AwaitPoints == {}

\* the task the loop runs after task t executed the statement at label
AfterStatement(t, label) == IF label \in AwaitPoints THEN 0 ELSE t

CanRun(t) == running \in {0, t}

InitTasks ==
    /\ TasksIdle
    /\ feedback_database =
          add_feedback(
            add_feedback(<<>>, "unc", <<"A", "B">>, <<"b", " ", "a">>,
                         ("fact_type" :> <<"m">>), "admin").db,
            "unc", <<"a", " ", "b">>, <<"a", "b">>, ("fact_type" :> <<"m">>), "admin").db
    /\ application_stats = EmptyDict
    /\ documents = <<>>
    /\ clinical_timeline = NotBuilt
    /\ CacheUnused
    /\ facts = [i \in 1..Len(ExtractedFacts) |->
                    HybridClinicalFact(ExtractedFacts[i].fact, ExtractedFacts[i].source_doc,
                                       ExtractedFacts[i].timestamp,
                                       ExtractedFacts[i].confidence,
                                       ExtractedFacts[i].fact_type, EmptyDict)]

\* approve_pattern / reject_pattern entered: the lookup of the pattern id
CallDecide(t) ==
    \E op \in {"approve", "reject"}, h \in PatternIds(feedback_database) \cup {MissingId} :
        /\ pc[t] = "idle"
        /\ CanRun(t)
        /\ IF IndexOf(feedback_database, h) = 0
           THEN UNCHANGED <<pc, loc, running>>
           ELSE /\ pc' = [pc EXCEPT ![t] = op]
                /\ loc' = [loc EXCEPT ![t] = [NoLocals EXCEPT !.h = h, !.k = 1]]
                /\ running' = t
        /\ UNCHANGED <<storeVars, documents, clinical_timeline, cacheVars>>

\* one assignment to feedback.context
DecideWrite(t) ==
    /\ pc[t] \in {"approve", "reject"}
    /\ CanRun(t)
    /\ LET writes == IF pc[t] = "approve" THEN approve_writes("admin")
                     ELSE reject_writes("admin", "wrong")
           i == IndexOf(feedback_database, loc[t].h)
           k == loc[t].k
       IN  /\ k <= Len(writes)
           /\ feedback_database' =
                 [feedback_database EXCEPT ![i].context = Put(@, writes[k][1], writes[k][2])]
           /\ loc' = [loc EXCEPT ![t].k = k + 1]
           /\ running' = AfterStatement(t, <<pc[t], k>>)
    /\ UNCHANGED <<application_stats, facts, pc, documents, clinical_timeline, cacheVars>>

\* return True
DecideReturn(t) ==
    /\ pc[t] \in {"approve", "reject"}
    /\ CanRun(t)
    /\ loc[t].k > Len(IF pc[t] = "approve" THEN approve_writes("admin")
                      ELSE reject_writes("admin", "wrong"))
    /\ pc' = [pc EXCEPT ![t] = "idle"]
    /\ loc' = [loc EXCEPT ![t] = NoLocals]
    /\ running' = 0
    /\ UNCHANGED <<storeVars, documents, clinical_timeline, cacheVars>>

\* apply_corrections entered
CallApply(t) ==
    /\ pc[t] = "idle"
    /\ CanRun(t)
    /\ \A i \in 1..Len(facts) : Len(facts[i].confidence.factors) < MaxApplied
    /\ pc' = [pc EXCEPT ![t] = "apply"]
    /\ loc' = [loc EXCEPT ![t] = [NoLocals EXCEPT !.k = 1]]
    /\ running' = t
    /\ UNCHANGED <<storeVars, documents, clinical_timeline, cacheVars>>

\* correction = self._find_matching_approved_correction(fact)
ApplyFind(t) ==
    /\ pc[t] = "apply"
    /\ CanRun(t)
    /\ loc[t].k <= Len(facts)
    /\ LET correction == find_matching_approved_correction(facts[loc[t].k],
                                                           feedback_database)
       IN  IF correction = NoCorrection
           THEN /\ loc' = [loc EXCEPT ![t].k = @ + 1]
                /\ pc' = pc
           ELSE /\ loc' = [loc EXCEPT ![t].correction = correction]
                /\ pc' = [pc EXCEPT ![t] = "apply_write"]
    /\ running' = AfterStatement(t, <<"apply", 1>>)
    /\ UNCHANGED <<storeVars, documents, clinical_timeline, cacheVars>>

\* the body of `if correction:`
ApplyWrite(t) ==
    /\ pc[t] = "apply_write"
    /\ CanRun(t)
    /\ LET i == loc[t].k
           c == loc[t].correction
           j == IndexOf(feedback_database, c.pattern_id)
       IN  /\ facts' = [facts EXCEPT ![i] = ApplyOne(@, c)]
           /\ application_stats' = Put(application_stats, c.pattern_id,
                                       Get(application_stats, c.pattern_id, 0) + 1)
           /\ feedback_database' =
                 IF j # 0 THEN [feedback_database EXCEPT ![j].applied_count = @ + 1]
                 ELSE feedback_database
    /\ loc' = [loc EXCEPT ![t].k = @ + 1, ![t].correction = NoLocals.correction]
    /\ pc' = [pc EXCEPT ![t] = "apply"]
    /\ running' = AfterStatement(t, <<"apply", 2>>)
    /\ UNCHANGED <<documents, clinical_timeline, cacheVars>>

\* return corrected_facts
ApplyReturn(t) ==
    /\ pc[t] = "apply"
    /\ CanRun(t)
    /\ loc[t].k > Len(facts)
    /\ pc' = [pc EXCEPT ![t] = "idle"]
    /\ loc' = [loc EXCEPT ![t] = NoLocals]
    /\ running' = 0
    /\ UNCHANGED <<storeVars, documents, clinical_timeline, cacheVars>>

NextTasks ==
    \E t \in Tasks :
        \/ CallDecide(t)
        \/ DecideWrite(t)
        \/ DecideReturn(t)
        \/ CallApply(t)
        \/ ApplyFind(t)
        \/ ApplyWrite(t)
        \/ ApplyReturn(t)

SpecTasks == InitTasks /\ [][NextTasks]_vars

(***************************************************************************)
(* Regular expressions of the temporal resolver.                           *)
(***************************************************************************)
DigitChars == {"0", "1", "2", "3", "4", "5", "6", "7", "8", "9"}

\* int(c) for one digit
DigitValue(c) ==
    CASE c = "0" -> 0 [] c = "1" -> 1 [] c = "2" -> 2 [] c = "3" -> 3 [] c = "4" -> 4
      [] c = "5" -> 5 [] c = "6" -> 6 [] c = "7" -> 7 [] c = "8" -> 8 [] c = "9" -> 9

RECURSIVE ToInt(_)
\* int(s) for a string of digits
ToInt(s) ==
    IF s = <<>> THEN 0
    ELSE 10 * ToInt(SubSeq(s, 1, Len(s) - 1)) + DigitValue(s[Len(s)])

\* the first position from i on whose character is not in chars
RunEnd(s, i, chars) ==
    CHOOSE j \in i..(Len(s) + 1) :
        /\ \A k \in i..(j - 1) : s[k] \in chars
        /\ j = Len(s) + 1 \/ s[j] \notin chars

\* the word, ignoring case, stands at position i of s
WordAt(word, s, i) ==
    /\ i + Len(word) - 1 <= Len(s)
    /\ Lower(SubSeq(s, i, i + Len(word) - 1)) = word

NoMatch == [found |-> FALSE, group |-> 0]

\* re.search(word + r'[#\s]*(\d+)', s, re.I): the number of the leftmost match
SearchWordNumber(word, s) ==
    LET starts == {i \in 1..Len(s) :
                      /\ WordAt(word, s, i)
                      /\ LET j == RunEnd(s, i + Len(word), {"#", Space})
                         IN  j <= Len(s) /\ s[j] \in DigitChars}
    IN  IF starts = {}
        THEN NoMatch
        ELSE LET i == CHOOSE x \in starts : \A y \in starts : x <= y
                 j == RunEnd(s, i + Len(word), {"#", Space})
             IN  [found |-> TRUE,
                  group |-> ToInt(SubSeq(s, j, RunEnd(s, j, DigitChars) - 1))]

\* re.search(r'(\d+)\s*' + word, s, re.I): the number of the leftmost match
SearchNumberWord(word, s) ==
    LET starts == {i \in 1..Len(s) :
                      /\ s[i] \in DigitChars
                      /\ WordAt(word, s, RunEnd(s, RunEnd(s, i, DigitChars), {Space}))}
    IN  IF starts = {}
        THEN NoMatch
        ELSE LET i == CHOOSE x \in starts : \A y \in starts : x <= y
             IN  [found |-> TRUE,
                  group |-> ToInt(SubSeq(s, i, RunEnd(s, i, DigitChars) - 1))]

(***************************************************************************)
(* identify_anchor_events                                                  *)
(***************************************************************************)
\* ClinicalDocument(...); content is held as the facts the extractor reads in it
ClinicalDocument(doc_type, timestamp, content) ==
    [doc_type |-> doc_type, timestamp |-> timestamp, content |-> content]

AnchorOf(doc) ==
    IF doc.doc_type = "operative_note"
    THEN [type |-> "surgery", timestamp |-> doc.timestamp,
          description |-> "Surgical procedure"]
    ELSE [type |-> "admission", timestamp |-> doc.timestamp,
          description |-> "Hospital admission"]

RECURSIVE InsertByTimestamp(_, _)
\* x placed after the elements of the sorted sequence that are not later
InsertByTimestamp(sorted, x) ==
    IF sorted = <<>> THEN <<x>>
    ELSE IF sorted[Len(sorted)].timestamp <= x.timestamp
         THEN Append(sorted, x)
         ELSE Append(InsertByTimestamp(SubSeq(sorted, 1, Len(sorted) - 1), x),
                     sorted[Len(sorted)])

RECURSIVE SortedByTimestamp(_)
\* sorted(seq, key=lambda x: x['timestamp']), which is stable
SortedByTimestamp(seq) ==
    IF seq = <<>> THEN <<>>
    ELSE InsertByTimestamp(SortedByTimestamp(SubSeq(seq, 1, Len(seq) - 1)), seq[Len(seq)])

identify_anchor_events(docs) ==
    SortedByTimestamp(
        [k \in 1..Len(SelectSeq(docs, LAMBDA d :
                                 d.doc_type \in {"operative_note", "admission_note"})) |->
            AnchorOf(SelectSeq(docs, LAMBDA d :
                                 d.doc_type \in {"operative_note", "admission_note"})[k])])

(***************************************************************************)
(* resolve_temporal_references                                             *)
(***************************************************************************)
temporal_reference == <<"t", "r">>

DatetimeMax == (MaxDay + 1) * Day - 1

Returned(v) == [raised |-> FALSE, value |-> v]
Raised == [raised |-> TRUE, value |-> 0]

\* datetime + timedelta, which raises OverflowError outside the datetime range
Plus(ts, delta) ==
    IF ts + delta < 0 \/ ts + delta > DatetimeMax THEN Raised ELSE Returned(ts + delta)

\* a surgery date moved by the wrong number of days
PodResolved_day_short(surgery_date, pod_num) == Plus(surgery_date, (pod_num - 1) * Day)

\* surgery_date + timedelta(days=pod_num)
PodResolved(surgery_date, pod_num) == Plus(surgery_date, pod_num * Day)

\* an admission date moved by hd_num days
HdResolved_day_long(admission_date, hd_num) == Plus(admission_date, hd_num * Day)

\* admission_date + timedelta(days=hd_num - 1)
HdResolved(admission_date, hd_num) == Plus(admission_date, (hd_num - 1) * Day)

_resolve_single_reference(fact, anchors) ==
    LET context   == fact.clinical_context
        temp_type == Get(context, "type", "")
        raw_text  == Get(context, "raw_text", <<>>)
        unable    == Returned(fact.timestamp)
    IN  IF temp_type = "post_operative_day"
        THEN LET pod_match == SearchWordNumber(<<"p", "o", "d">>, raw_text)
                 surgery_anchors ==
                     SelectSeq(anchors, LAMBDA a :
                         a.type = "surgery" /\ a.timestamp <= fact.timestamp)
             IN  IF pod_match.found /\ anchors # <<>> /\ surgery_anchors # <<>>
                 THEN PodResolved(surgery_anchors[Len(surgery_anchors)].timestamp,
                                  pod_match.group)
                 ELSE unable
        ELSE IF temp_type = "hospital_day"
        THEN LET hd_match == SearchWordNumber(<<"h", "d">>, raw_text)
                 admission_anchors ==
                     SelectSeq(anchors, LAMBDA a : a.type = "admission")
             IN  IF hd_match.found /\ anchors # <<>> /\ admission_anchors # <<>>
                 THEN HdResolved(admission_anchors[1].timestamp, hd_match.group)
                 ELSE unable
        ELSE IF temp_type = "hours_after"
        THEN LET num_match == SearchNumberWord(<<"h", "o", "u", "r">>, raw_text)
             IN  IF num_match.found
                 THEN Plus(fact.timestamp, num_match.group * Hour)
                 ELSE unable
        ELSE IF temp_type = "days_after"
        THEN LET num_match == SearchNumberWord(<<"d", "a", "y">>, raw_text)
             IN  IF num_match.found
                 THEN Plus(fact.timestamp, num_match.group * Day)
                 ELSE unable
        ELSE IF temp_type = "previous_day"
        THEN Plus(fact.timestamp, 0 - Day)
        ELSE IF temp_type = "next_morning"
        THEN LET next_day == Plus(fact.timestamp, Day)
             IN  IF next_day.raised THEN Raised
                 ELSE Returned(ReplaceHour(next_day.value, 8))
        ELSE IF temp_type = "same_day"
        THEN Returned(ReplaceHour(fact.timestamp, 0))
        ELSE IF temp_type = "same_evening"
        THEN Returned(ReplaceHour(fact.timestamp, 18))
        ELSE IF temp_type = "next_day"
        THEN Plus(fact.timestamp, Day)
        ELSE unable

method_map ==
    [t \in {"post_operative_day", "hospital_day", "hours_after", "days_after",
            "previous_day", "next_morning", "same_day", "next_day"} |->
        CASE t = "post_operative_day" -> "POD_anchor_based"
          [] t = "hospital_day" -> "HD_anchor_based"
          [] t = "hours_after" -> "relative_hours"
          [] t = "days_after" -> "relative_days"
          [] t = "previous_day" -> "relative_previous"
          [] t = "next_morning" -> "relative_next_morning"
          [] t = "same_day" -> "same_day_normalization"
          [] t = "next_day" -> "relative_next_day"]

_get_resolution_method(fact) ==
    Get(method_map, Get(fact.clinical_context, "type", "unknown"), "unresolved")

RECURSIVE Product(_, _)
\* the product of the first n factors
Product(factors, n) ==
    IF n = 0 THEN One ELSE DecMul(Product(factors, n - 1), factors[n])

\* the number a confidence stands for
ConfidenceValue(c) == DecMul(c.base, Product(c.factors, Len(c.factors)))

DecMin(a, b) == IF DecGeq(a, b) THEN b ELSE a

\* a boost without the cap
Boosted_uncapped(c) ==
    [base |-> DecAdd(ConfidenceValue(c), Dec(15, 2)), factors |-> <<>>]

\* a boost of 0.10
Boosted_by_tenth(c) ==
    [base |-> DecMin(Dec(95, 2), DecAdd(ConfidenceValue(c), Dec(1, 1))), factors |-> <<>>]

\* min(0.95, confidence + 0.15)
Boosted(c) ==
    [base |-> DecMin(Dec(95, 2), DecAdd(ConfidenceValue(c), Dec(15, 2))), factors |-> <<>>]

\* a loop body that marks every fact, whatever its type
ResolveOne_any_type(fact, anchors) ==
    [fact EXCEPT !.clinical_context = Put(@, "resolved", FALSE)]

\* the body of the loop of resolve_temporal_references for one fact
ResolveOne(fact, anchors) ==
    IF fact.fact_type # temporal_reference
    THEN fact
    ELSE LET resolved_time == _resolve_single_reference(fact, anchors)
         IN  IF resolved_time.raised
             THEN [fact EXCEPT !.clinical_context =
                       Put(@, "resolution_error", "date value out of range")]
             ELSE IF resolved_time.value # fact.timestamp
             THEN [fact EXCEPT
                      !.absolute_timestamp = resolved_time.value,
                      !.confidence = Boosted(@),
                      !.clinical_context =
                          Put(Put(@, "resolved", TRUE),
                              "resolution_method", _get_resolution_method(fact))]
             ELSE [fact EXCEPT !.clinical_context = Put(@, "resolved", FALSE)]

resolve_temporal_references(fs, anchors) ==
    [i \in 1..Len(fs) |-> ResolveOne(fs[i], anchors)]

(***************************************************************************)
(* detect_temporal_conflicts                                               *)
(***************************************************************************)
\* the indices of the facts satisfying Test, in list order
Indices(fs, Test(_)) == SelectSeq([i \in 1..Len(fs) |-> i], LAMBDA i : Test(fs[i]))

\* a detection that reports nothing
detect_temporal_conflicts_silent(fs, anchors) == <<>>

detect_temporal_conflicts(fs, anchors) ==
    LET admission_anchors == SelectSeq(anchors, LAMBDA a : a.type = "admission")
        surgery_anchors   == SelectSeq(anchors, LAMBDA a : a.type = "surgery")
        before_admission  ==
            Indices(fs, LAMBDA f :
                /\ admission_anchors # <<>>
                /\ f.absolute_timestamp < admission_anchors[1].timestamp
                /\ f.fact_type # temporal_reference)
        pod_facts ==
            Indices(fs, LAMBDA f :
                /\ f.fact_type = temporal_reference
                /\ Get(f.clinical_context, "type", "") = "post_operative_day")
        hd_facts ==
            Indices(fs, LAMBDA f :
                /\ f.fact_type = temporal_reference
                /\ Get(f.clinical_context, "type", "") = "hospital_day")
    IN  (IF before_admission # <<>>
         THEN <<[type |-> "BEFORE_ADMISSION", severity |-> "HIGH",
                 facts |-> before_admission]>>
         ELSE <<>>)
        \o (IF pod_facts # <<>> /\ surgery_anchors = <<>>
            THEN <<[type |-> "POD_WITHOUT_SURGERY", severity |-> "HIGH",
                    facts |-> pod_facts]>>
            ELSE <<>>)
        \o (IF hd_facts # <<>> /\ admission_anchors = <<>>
            THEN <<[type |-> "HD_WITHOUT_ADMISSION", severity |-> "HIGH",
                    facts |-> hd_facts]>>
            ELSE <<>>)

(***************************************************************************)
(* Runs over a document set: the documents, the facts extracted from them  *)
(* and the pattern store the run starts with.                              *)
(***************************************************************************)
TemporalFact(raw_text, type, timestamp) ==
    HybridClinicalFact(raw_text, <<"p">>, timestamp, Dec(8, 1), temporal_reference,
                       ("type" :> type) @@ ("raw_text" :> raw_text))

\* the facts the extractor may read in a progress note
FactPool ==
    {TemporalFact(<<"P", "O", "D", "#", "1">>, "post_operative_day", At(3, 8)),
     TemporalFact(<<"p", "o", "d", " ", "9", "9">>, "post_operative_day", At(3, 8)),
     TemporalFact(<<"P", "O", "D", "#", "0">>, "post_operative_day", At(2, 14)),
     TemporalFact(<<"P", "O", "D">>, "post_operative_day", At(3, 8)),
     TemporalFact(<<"H", "D", "#", "1">>, "hospital_day", At(1, 8)),
     TemporalFact(<<"H", "D", "#", "2">>, "hospital_day", At(3, 8)),
     TemporalFact(<<"y">>, "previous_day", At(3, 8)),
     TemporalFact(<<"e">>, "same_evening", At(3, 8)),
     [TemporalFact(<<"y">>, "previous_day", At(3, 8))
         EXCEPT !.confidence = [base |-> Dec(98, 2), factors |-> <<>>]],
     HybridClinicalFact(<<"a", "b">>, <<"p">>, At(3, 8), Dec(8, 1), <<"m">>, EmptyDict)}

RECURSIVE FactLists(_)
\* the lists of n facts of the pool
FactLists(n) ==
    IF n = 0 THEN {<<>>}
    ELSE {Append(fs, f) : fs \in FactLists(n - 1), f \in FactPool}

Note(doc_type, timestamp) == ClinicalDocument(doc_type, timestamp, <<>>)

\* the admission and operative notes of a run, in the order they are handed in
DocumentLists ==
    {<<>>,
     <<Note("admission_note", At(1, 8))>>,
     <<Note("operative_note", At(2, 14))>>,
     <<Note("operative_note", At(5, 14))>>,
     <<Note("operative_note", At(5, 14)), Note("operative_note", At(2, 14)),
       Note("admission_note", At(2, 8)), Note("operative_note", At(1, 14)),
       Note("admission_note", At(1, 8))>>}

\* a pattern the store holds after add_feedback, approve_pattern and updates
StoredPattern(orig, corr, type, updates) ==
    LET added    == add_feedback(<<>>, "unc", orig, corr, ("fact_type" :> type), "admin")
        approved == approve_pattern(added.db, added.ret, "admin").db
    IN  IF updates = 0 THEN approved
        ELSE update_success_rate(approved, added.ret, FALSE)

\* the pattern stores a run may start with
Stores ==
    {<<>>,
     StoredPattern(<<"P", "O", "D", "#">>, <<"p", "1">>, temporal_reference, 1),
     StoredPattern(<<"A", "B">>, <<"b", " ", "a">>, <<"m">>, 0)}

RECURSIVE Extract(_)
\* the facts of the documents, document by document
Extract(docs) ==
    IF docs = <<>> THEN <<>>
    ELSE Extract(SubSeq(docs, 1, Len(docs) - 1)) \o docs[Len(docs)].content

InitRuns ==
    /\ TasksIdle
    /\ \E notes \in DocumentLists, n \in 1..MaxFacts :
          \E fs \in FactLists(n) :
              documents = Append(notes, ClinicalDocument("progress_note", At(3, 8), fs))
    /\ facts = Extract(documents)
    /\ clinical_timeline = NotBuilt
    /\ CacheUnused
    /\ feedback_database \in Stores
    /\ application_stats = EmptyDict

ResolveTemporalReferences ==
    /\ facts' = resolve_temporal_references(facts, identify_anchor_events(documents))
    /\ UNCHANGED <<feedback_database, application_stats, documents, pc, loc, running, clinical_timeline, cacheVars>>

NextRuns ==
    \/ ResolveTemporalReferences
    \/ ApplyCorrections

SpecRuns == InitRuns /\ [][NextRuns]_vars

(***************************************************************************)
(* get_statistics                                                          *)
(***************************************************************************)
is_rejected(feedback) == Get(feedback.context, "rejected", FALSE)

RECURSIVE SumValues(_)
\* sum(d.values())
SumValues(d) ==
    IF DOMAIN d = {}
    THEN 0
    ELSE LET k == CHOOSE x \in DOMAIN d : TRUE
         IN  d[k] + SumValues([x \in DOMAIN d \ {k} |-> d[x]])

get_statistics(db, stats) ==
    [total_patterns     |-> Len(db),
     approved_count     |-> Cardinality({i \in 1..Len(db) : is_approved(db[i])}),
     pending_count      |-> Cardinality({i \in 1..Len(db) :
                                ~ is_approved(db[i]) /\ ~ is_rejected(db[i])}),
     rejected_count     |-> Cardinality({i \in 1..Len(db) : is_rejected(db[i])}),
     total_applications |-> SumValues(stats)]

(***************************************************************************)
(* Vocabulary of the properties.                                           *)
(***************************************************************************)
Stored == 1..Len(feedback_database)

Approved(p) == "approved" \in DOMAIN p.context /\ p.context["approved"] = TRUE

RejectedFlag(p) == "rejected" \in DOMAIN p.context /\ p.context["rejected"] = TRUE

\* success_rate >= 0.70
RateOk(p) == 10 * p.success_rate.num >= 7 * Pow10(p.success_rate.exp)

ApprovalState(p) ==
    IF Approved(p) /\ RejectedFlag(p) THEN "approved and rejected"
    ELSE IF Approved(p) THEN "approved"
    ELSE IF RejectedFlag(p) THEN "rejected"
    ELSE "pending"

\* approve_pattern or reject_pattern has succeeded on the pattern
Decided(p) == "approved_by" \in DOMAIN p.context \/ "rejected_by" \in DOMAIN p.context

\* the fact type a stored pattern is matched under
TypeOf(p) == IF "fact_type" \in DOMAIN p.context THEN p.context["fact_type"] ELSE None

\* original text of the pattern occurs in the text, case-insensitively
Occurs(p, text) == Contains(Lower(p.original_extraction), Lower(text))

\* fact i received a correction in this step
Corrected(i) ==
    Len(facts'[i].confidence.factors) = Len(facts[i].confidence.factors) + 1

(***************************************************************************)
(* C1: apply_corrections changes a fact only through a pattern that is     *)
(* approved and has success_rate >= 0.70 in the state the call starts     *)
(* from; a pattern that is unapproved or below 0.70 changes no fact and    *)
(* its application count does not grow.                                    *)
(***************************************************************************)
C1_Step ==
    /\ \A i \in DOMAIN facts :
          facts'[i] # facts[i] =>
              \E j \in Stored :
                  /\ Approved(feedback_database[j])
                  /\ RateOk(feedback_database[j])
                  /\ facts'[i].fact = feedback_database[j].correction
                  /\ facts'[i].correction_source = feedback_database[j].pattern_hash
    /\ \A j \in Stored :
          ~ (Approved(feedback_database[j]) /\ RateOk(feedback_database[j])) =>
              /\ feedback_database'[j].applied_count = feedback_database[j].applied_count
              /\ Get(application_stats', feedback_database[j].pattern_hash, 0)
                   = Get(application_stats, feedback_database[j].pattern_hash, 0)

C1_OnlyApprovedApplied == [][C1_Step]_vars

\* a fact was corrected, and the store holds a pattern matching the fact's
\* present text that is unapproved or below the threshold and was never applied
C1_Witness ==
    \E i \in DOMAIN facts, j \in Stored :
        /\ facts[i].correction_applied
        /\ is_similar_context(facts[i], feedback_database[j])
        /\ ~ (Approved(feedback_database[j]) /\ RateOk(feedback_database[j]))
        /\ feedback_database[j].applied_count = 0

(***************************************************************************)
(* C2: no add_feedback call, first submission or resubmission, makes a     *)
(* pattern approved: a pattern it creates is pending whatever the context, *)
(* and approval is written by approve_pattern and reject_pattern only.     *)
(***************************************************************************)
C2_AddFeedbackNeverApproves ==
    [][AddFeedback =>
          \A j \in 1..Len(feedback_database') :
              Approved(feedback_database'[j]) =>
                  (j \in Stored /\ Approved(feedback_database[j]))]_vars

(***************************************************************************)
(* C3: approved and rejected are terminal: no approve_pattern or           *)
(* reject_pattern call changes the approval state of a pattern that an     *)
(* earlier call approved or rejected.                                      *)
(***************************************************************************)
C3_ApprovalTerminal ==
    [][(ApprovePattern \/ RejectPattern) =>
          \A j \in Stored :
              Decided(feedback_database[j]) =>
                  ApprovalState(feedback_database'[j])
                      = ApprovalState(feedback_database[j])]_vars

(***************************************************************************)
(* C5: every stored pattern is in exactly one of the states pending,       *)
(* approved, rejected, so the counts of get_statistics add up:             *)
(* approved_count + pending_count + rejected_count = total_patterns.       *)
(***************************************************************************)
C5_StatisticsPartition ==
    LET s == get_statistics(feedback_database, application_stats)
    IN  /\ s.approved_count + s.pending_count + s.rejected_count = s.total_patterns
        /\ \A j \in Stored : ~ (Approved(feedback_database[j])
                                 /\ RejectedFlag(feedback_database[j]))

(***************************************************************************)
(* C6: resubmitting a stored (fact type, original, correction) triple      *)
(* returns the id of the stored pattern, adds no pattern, and leaves the   *)
(* pattern's approval state, success rate and application count as they    *)
(* were, whatever context the resubmission carries.                        *)
(***************************************************************************)
C6_ResubmissionKeepsPattern ==
    \A s \in Submissions : \A j \in Stored :
        LET p == feedback_database[j]
            r == add_feedback(feedback_database, "unc", s.original, s.correction,
                              s.context, "admin")
        IN  (/\ p.original_extraction = s.original
             /\ p.correction = s.correction
             /\ Get(p.context, "fact_type", <<"u">>) = Get(s.context, "fact_type", <<"u">>))
            => /\ r.ret = p.pattern_hash
               /\ Len(r.db) = Len(feedback_database)
               /\ ApprovalState(r.db[j]) = ApprovalState(p)
               /\ r.db[j].success_rate = p.success_rate
               /\ r.db[j].applied_count = p.applied_count

(***************************************************************************)
(* C8: after any number of apply_corrections calls the text first          *)
(* extracted for a fact is recoverable from its context: for a corrected   *)
(* fact, original_extraction is the text the fact had before its first     *)
(* correction.                                                             *)
(***************************************************************************)
C8_OriginalRecoverable ==
    \A i \in DOMAIN facts :
        facts[i].correction_applied =>
            /\ "original_extraction" \in DOMAIN facts[i].clinical_context
            /\ facts[i].clinical_context["original_extraction"] = ExtractedFacts[i].fact

(***************************************************************************)
(* C4: for a pattern whose original text occurs in a fact of the same fact *)
(* type, apply_corrections leaves the fact alone while the pattern is      *)
(* pending, corrects it once the pattern is approved (success rate still   *)
(* at or above 0.70), and leaves it alone again once the success rate is   *)
(* below 0.70 although the pattern is still approved.                      *)
(***************************************************************************)
Applicable(p) == Approved(p) /\ RateOk(p)

C4_ApprovalGatesCorrection ==
    LET r == apply_corrections(facts, feedback_database, application_stats)
    IN  \A i \in DOMAIN facts : \A j \in Stored :
            LET f == facts[i]
                p == feedback_database[j]
                others == {feedback_database[k] : k \in Stored \ {j}}
            IN  (TypeOf(p) = f.fact_type /\ Occurs(p, f.fact)) =>
                   /\ ~ Applicable(p) =>
                         /\ r.facts[i] # f => r.facts[i].correction_source # p.pattern_hash
                         /\ r.db[j].applied_count = p.applied_count
                         /\ (\A q \in others : ~ Applicable(q)) => r.facts[i] = f
                   /\ Applicable(p) =>
                         /\ r.facts[i].correction_applied
                         /\ \E k \in Stored :
                               /\ Applicable(feedback_database[k])
                               /\ r.facts[i].fact = feedback_database[k].correction
                               /\ r.facts[i].correction_source
                                    = feedback_database[k].pattern_hash

\* an approved pattern that was applied, whose success rate has since
\* fallen below 0.70, and whose original text occurs in a fact of its type
C4_Witness ==
    \E i \in DOMAIN facts, j \in Stored :
        /\ Approved(feedback_database[j])
        /\ ~ RateOk(feedback_database[j])
        /\ feedback_database[j].applied_count > 0
        /\ TypeOf(feedback_database[j]) = facts[i].fact_type
        /\ Occurs(feedback_database[j], facts[i].fact)

(***************************************************************************)
(* C9: when apply_corrections finds an applicable pattern for a fact it    *)
(* replaces the fact's text by the correction, multiplies the confidence   *)
(* by the pattern's success rate, records the pre-correction text and the  *)
(* pattern id in the fact's context and adds exactly one to the pattern's  *)
(* application count; a fact with no applicable pattern is returned        *)
(* unchanged.                                                              *)
(***************************************************************************)
C9_CorrectionEffect ==
    LET r == apply_corrections(facts, feedback_database, application_stats)
        found(i) == find_matching_approved_correction(facts[i], feedback_database)
    IN  /\ Len(r.facts) = Len(facts)
        /\ \A i \in DOMAIN facts :
              IF found(i) = NoCorrection
              THEN r.facts[i] = facts[i]
              ELSE /\ r.facts[i].fact = found(i).corrected_text
                   /\ r.facts[i].confidence.base = facts[i].confidence.base
                   /\ r.facts[i].confidence.factors
                        = facts[i].confidence.factors \o <<found(i).success_rate>>
                   /\ r.facts[i].fact_type = facts[i].fact_type
                   /\ r.facts[i].clinical_context["original_extraction"] = facts[i].fact
                   /\ r.facts[i].clinical_context["correction_pattern"] = found(i).pattern_id
                   /\ r.facts[i].correction_source = found(i).pattern_id
        /\ \A j \in Stored :
              r.db[j].applied_count
                = feedback_database[j].applied_count
                    + Cardinality({i \in DOMAIN facts :
                          found(i).pattern_id = feedback_database[j].pattern_hash})

\* a fact corrected by a pattern whose success rate was below 1.0, next to
\* a fact that no pattern applied to
C9_Witness ==
    /\ \E i \in DOMAIN facts :
          /\ facts[i].correction_applied
          /\ \E k \in DOMAIN facts[i].confidence.factors :
                facts[i].confidence.factors[k] # One
    /\ \E i \in DOMAIN facts : ~ facts[i].correction_applied

(***************************************************************************)
(* C10: a new pattern starts with success_rate 1.0; update_success_rate    *)
(* on a stored pattern sets success_rate to 0.9 * old + 0.1 * (1 if        *)
(* success else 0) and changes nothing else; success_rate stays in [0, 1]. *)
(***************************************************************************)
Scaled(d, e) == d.num * Pow10(e - d.exp)

C10_SuccessRateEMA ==
    /\ \A s \in Submissions :
          LET r == add_feedback(feedback_database, "unc", s.original, s.correction,
                                s.context, "admin")
          IN  Len(r.db) > Len(feedback_database) =>
                  r.db[Len(r.db)].success_rate = [num |-> 1, exp |-> 0]
    /\ \A j \in Stored : \A success \in BOOLEAN :
          LET p == feedback_database[j]
              db == update_success_rate(feedback_database, p.pattern_hash, success)
              e == p.success_rate.exp + 1
          IN  /\ db[j].success_rate.exp <= e
              /\ 10 * Scaled(db[j].success_rate, e)
                   = 9 * Scaled(p.success_rate, e) + (IF success THEN Pow10(e) ELSE 0)
              /\ [db[j] EXCEPT !.success_rate = p.success_rate] = p
              /\ \A k \in Stored \ {j} : db[k] = feedback_database[k]
    /\ \A j \in Stored :
          /\ feedback_database[j].success_rate.num >= 0
          /\ feedback_database[j].success_rate.num
               <= Pow10(feedback_database[j].success_rate.exp)

\* a pattern whose success rate four failures have brought to 0.6561
C10_Witness ==
    \E j \in Stored : feedback_database[j].success_rate = [num |-> 6561, exp |-> 4]

(***************************************************************************)
(* C7: approve_pattern, reject_pattern and apply_corrections are           *)
(* serialized: no call of one task is in progress while a call of another  *)
(* task is, and while an apply_corrections call is in progress no          *)
(* pattern's context (its approval state) changes, so every call sees each *)
(* approve or reject either not at all or completed.                       *)
(***************************************************************************)
InCall(t) == pc[t] # "idle"

IsTemporal(f) == f.fact_type = temporal_reference

RawText(f) == IF "raw_text" \in DOMAIN f.clinical_context
              THEN f.clinical_context["raw_text"] ELSE <<>>

\* the raw text is one of the prefixes followed by a number
PrefixedNumber(text, prefixes) ==
    \E p \in prefixes :
        /\ Len(text) > Len(p)
        /\ SubSeq(text, 1, Len(p)) = p
        /\ \A k \in (Len(p) + 1)..Len(text) : text[k] \in DigitChars

\* the fact is a POD#N reference
PodReference(f) ==
    /\ IsTemporal(f)
    /\ "type" \in DOMAIN f.clinical_context
    /\ f.clinical_context["type"] = "post_operative_day"
    /\ PrefixedNumber(RawText(f), {<<"P", "O", "D", "#">>, <<"p", "o", "d", " ">>})

\* the fact is an HD#N reference
HdReference(f) ==
    /\ IsTemporal(f)
    /\ "type" \in DOMAIN f.clinical_context
    /\ f.clinical_context["type"] = "hospital_day"
    /\ PrefixedNumber(RawText(f), {<<"H", "D", "#">>})

\* the N of a POD#N or HD#N reference
PodNumber(f) == ToInt(SubSeq(RawText(f), 5, Len(RawText(f))))
HdNumber(f) == ToInt(SubSeq(RawText(f), 4, Len(RawText(f))))

\* the timestamps of the documents of a type
NoteTimes(doc_type) ==
    {documents[k].timestamp : k \in {x \in DOMAIN documents :
                                        documents[x].doc_type = doc_type}}

Latest(times) == CHOOSE t \in times : \A u \in times : u <= t
Earliest(times) == CHOOSE t \in times : \A u \in times : t <= u

\* the surgeries at or before the fact's own timestamp
SurgeriesBefore(f) == {t \in NoteTimes("operative_note") : t <= f.timestamp}

Representable(ts) == ts >= 0 /\ ts <= (MaxDay + 1) * Day - 1

MarkedResolved(f) ==
    "resolved" \in DOMAIN f.clinical_context /\ f.clinical_context["resolved"] = TRUE

MarkedUnresolved(f) ==
    "resolved" \in DOMAIN f.clinical_context /\ f.clinical_context["resolved"] = FALSE

\* the facts after one more resolution against the documents of the run
Resolved == resolve_temporal_references(facts, identify_anchor_events(documents))

\* the conflicts reported for the resolved facts
Conflicts == detect_temporal_conflicts(Resolved, identify_anchor_events(documents))

Reported(type, i) ==
    \E k \in DOMAIN Conflicts :
        /\ Conflicts[k].type = type
        /\ \E m \in DOMAIN Conflicts[k].facts : Conflicts[k].facts[m] = i

(***************************************************************************)
(* C14: a POD#N reference resolves to T + N days, T being the latest       *)
(* surgery at or before the fact's own timestamp; with no such surgery it  *)
(* stays unresolved and its timestamps are unchanged.                      *)
(***************************************************************************)
C14_PodResolution ==
    \A i \in DOMAIN facts :
        PodReference(facts[i]) =>
            IF SurgeriesBefore(facts[i]) = {}
            THEN /\ Resolved[i].timestamp = facts[i].timestamp
                 /\ Resolved[i].absolute_timestamp = facts[i].absolute_timestamp
                 /\ MarkedUnresolved(Resolved[i])
            ELSE LET T == Latest(SurgeriesBefore(facts[i]))
                     n == PodNumber(facts[i])
                 IN  Representable(T + n * Day) =>
                        /\ Resolved[i].absolute_timestamp = T + n * Day
                        /\ Resolved[i].timestamp = facts[i].timestamp

\* a POD reference resolved against the later of two earlier surgeries
C14_Witness ==
    \E i \in DOMAIN facts :
        /\ PodReference(facts[i])
        /\ Cardinality(SurgeriesBefore(facts[i])) >= 2
        /\ NoteTimes("operative_note") # SurgeriesBefore(facts[i])
        /\ MarkedResolved(facts[i])
        /\ facts[i].absolute_timestamp =
              Latest(SurgeriesBefore(facts[i])) + PodNumber(facts[i]) * Day

(***************************************************************************)
(* C15: an HD#N reference resolves to the first admission's timestamp plus *)
(* N - 1 days, so that HD#1 is the admission timestamp itself; without an  *)
(* admission anchor it stays unresolved.                                   *)
(***************************************************************************)
C15_HdResolution ==
    \A i \in DOMAIN facts :
        HdReference(facts[i]) =>
            IF NoteTimes("admission_note") = {}
            THEN /\ Resolved[i].absolute_timestamp = facts[i].absolute_timestamp
                 /\ MarkedUnresolved(Resolved[i])
            ELSE LET A == Earliest(NoteTimes("admission_note"))
                     n == HdNumber(facts[i])
                 IN  Representable(A + (n - 1) * Day) =>
                        /\ Resolved[i].absolute_timestamp = A + (n - 1) * Day
                        /\ n = 1 => Resolved[i].absolute_timestamp = A

\* an HD reference resolved against the earlier of two admissions
C15_Witness ==
    \E i \in DOMAIN facts :
        /\ HdReference(facts[i])
        /\ Cardinality(NoteTimes("admission_note")) >= 2
        /\ MarkedResolved(facts[i])
        /\ facts[i].absolute_timestamp =
              Earliest(NoteTimes("admission_note")) + (HdNumber(facts[i]) - 1) * Day

(***************************************************************************)
(* C16: with no surgery anchor a POD#N reference keeps its timestamp and   *)
(* absolute timestamp, and detect_temporal_conflicts reports a             *)
(* POD_WITHOUT_SURGERY conflict that names it.                             *)
(***************************************************************************)
C16_PodWithoutSurgery ==
    \A i \in DOMAIN facts :
        (PodReference(facts[i]) /\ NoteTimes("operative_note") = {}) =>
            /\ Resolved[i].timestamp = facts[i].timestamp
            /\ Resolved[i].absolute_timestamp = facts[i].absolute_timestamp
            /\ Reported("POD_WITHOUT_SURGERY", i)

\* a POD reference that went through resolution in a run without surgery
C16_Witness ==
    \E i \in DOMAIN facts :
        /\ PodReference(facts[i])
        /\ NoteTimes("operative_note") = {}
        /\ NoteTimes("admission_note") # {}
        /\ MarkedUnresolved(facts[i])

C18_UnresolvedSurfaced ==
    \A i \in DOMAIN facts :
        /\ (PodReference(facts[i]) /\ MarkedUnresolved(Resolved[i]))
              => Reported("POD_WITHOUT_SURGERY", i)
        /\ (HdReference(facts[i]) /\ MarkedUnresolved(Resolved[i]))
              => Reported("HD_WITHOUT_ADMISSION", i)

(***************************************************************************)
(* C11: the confidence of every fact stays within [0, 1] through any       *)
(* sequence of temporal resolutions and learning corrections.              *)
(***************************************************************************)
C11_ConfidenceInUnitInterval ==
    \A i \in DOMAIN facts :
        LET v == ConfidenceValue(facts[i].confidence)
        IN  v.num >= 0 /\ v.num <= Pow10(v.exp)

\* a fact that was both corrected and resolved, more than once
C11_Witness ==
    \E i \in DOMAIN facts :
        /\ facts[i].correction_applied
        /\ MarkedResolved(facts[i])
        /\ ConfidenceValue(facts[i].confidence) = Dec(95, 2)


(***************************************************************************)
(* The HTTP API: users, permissions, the two learning endpoints.           *)
(***************************************************************************)
USER_DATABASE ==
    ("dr.smith" :> {"read", "write", "approve"}) @@
    ("dr.jones" :> {"read", "write"}) @@
    ("admin"    :> {"read", "write", "approve", "manage"})

Users == DOMAIN USER_DATABASE

check_permission(user, permission) == permission \in USER_DATABASE[user]

\* POST /api/learning/feedback: the response and the store it leaves.  The
\* feedback is stored first; the statement after it reads a name that is not
\* defined, and the handler answers 500 with the pattern already in the store.
submit_learning_feedback(db, user, request) ==
    IF ~check_permission(user, "write")
    THEN [status |-> 403, db |-> db]
    ELSE [status |-> 500,
          db     |-> add_feedback(db, "unc", request.original, request.correction,
                                  request.context, user).db]

\* POST /api/learning/approve
approve_learning_pattern(db, user, pattern_id, approved) ==
    IF ~check_permission(user, "approve")
    THEN [status |-> 403, db |-> db]
    ELSE LET r == IF approved
                  THEN approve_pattern(db, pattern_id, user)
                  ELSE reject_pattern(db, pattern_id, user, "wrong")
         IN  [status |-> IF r.ret THEN 200 ELSE 404, db |-> r.db]

SubmitLearningFeedback ==
    \E user \in Users, request \in Submissions :
        /\ feedback_database' = submit_learning_feedback(feedback_database, user, request).db
        /\ UNCHANGED <<application_stats, facts, pc, loc, running, documents, clinical_timeline, cacheVars>>

ApproveLearningPattern ==
    \E user \in Users, h \in PatternIds(feedback_database) \cup {MissingId},
       approved \in BOOLEAN :
        /\ feedback_database' =
               approve_learning_pattern(feedback_database, user, h, approved).db
        /\ UNCHANGED <<application_stats, facts, pc, loc, running, documents, clinical_timeline, cacheVars>>

NextApi ==
    \/ SubmitLearningFeedback
    \/ ApproveLearningPattern
    \/ ApplyCorrections

SpecApi == Init /\ [][NextApi]_vars

Approvers == {user \in Users : check_permission(user, "approve")}

ApprovedThroughEndpoint(p) ==
    /\ "approved_by" \in DOMAIN p.context
    /\ p.context["approved_by"] \in Approvers

\* C12: through the API a pattern is approved only by an approve request of a
\* user holding 'approve': every approved pattern of the store, and every
\* pattern that corrected a fact, records such a user as its approver.
C12_ApprovedOnlyByApprovers ==
    /\ \A j \in 1..Len(feedback_database) :
           Approved(feedback_database[j]) => ApprovedThroughEndpoint(feedback_database[j])
    /\ \A i \in 1..Len(facts) :
           facts[i].correction_applied =>
               \E j \in 1..Len(feedback_database) :
                   /\ feedback_database[j].pattern_hash = facts[i].correction_source
                   /\ ApprovedThroughEndpoint(feedback_database[j])


(***************************************************************************)
(* PatternMatcher.calculate_match_confidence.  Scores are fractions        *)
(* [n, d] standing for n / d.                                              *)
(***************************************************************************)
Frac(n, d) == [n |-> n, d |-> d]

FracGeq(x, y) == x.n * y.d >= y.n * x.d

FracMax(x, y) == IF FracGeq(x, y) THEN x ELSE y

FracMin(x, y) == IF FracGeq(x, y) THEN y ELSE x

FracAdd(x, y) == Frac(x.n * y.d + y.n * x.d, x.d * y.d)

\* the characters of the texts that \w does not match
NonWordChars == {Space, "#", ":", "."}

RECURSIVE FindAllFrom(_, _, _)
\* re.findall(r'\w+', s) as a set, from position i on, cur being the run read
FindAllFrom(s, i, cur) ==
    IF i > Len(s)
    THEN IF cur = <<>> THEN {} ELSE {cur}
    ELSE IF s[i] \in NonWordChars
         THEN (IF cur = <<>> THEN {} ELSE {cur}) \cup FindAllFrom(s, i + 1, <<>>)
         ELSE FindAllFrom(s, i + 1, Append(cur, s[i]))

WordTokens(s) == FindAllFrom(s, 1, <<>>)

\* _calculate_token_similarity
calculate_token_similarity(text1, text2) ==
    LET tokens1 == WordTokens(Lower(text1))
        tokens2 == WordTokens(Lower(text2))
    IN  IF tokens1 = {} \/ tokens2 = {}
        THEN Frac(0, 1)
        ELSE Frac(Cardinality(tokens1 \cap tokens2), Cardinality(tokens1 \cup tokens2))

RECURSIVE CommonRun(_, _, _, _, _, _)
\* length of the run a[i:] and b[j:] share, inside a[:ahi] and b[:bhi]
CommonRun(a, i, ahi, b, j, bhi) ==
    IF i < ahi /\ j < bhi /\ a[i + 1] = b[j + 1]
    THEN 1 + CommonRun(a, i + 1, ahi, b, j + 1, bhi)
    ELSE 0

\* SequenceMatcher.find_longest_match: the longest block of a[alo:ahi] and
\* b[blo:bhi], the one starting earliest in a and then earliest in b
find_longest_match(a, alo, ahi, b, blo, bhi) ==
    LET starts == (alo..(ahi - 1)) \X (blo..(bhi - 1))
        size(p) == CommonRun(a, p[1], ahi, b, p[2], bhi)
    IN  IF starts = {} \/ \A p \in starts : size(p) = 0
        THEN [i |-> alo, j |-> blo, size |-> 0]
        ELSE LET best == CHOOSE p \in starts :
                             \A q \in starts :
                                 \/ size(p) > size(q)
                                 \/ /\ size(p) = size(q)
                                    /\ \/ p[1] < q[1]
                                       \/ p[1] = q[1] /\ p[2] <= q[2]
             IN  [i |-> best[1], j |-> best[2], size |-> size(best)]

RECURSIVE Matches(_, _, _, _, _, _)
\* the characters in the matching blocks of a[alo:ahi] and b[blo:bhi]
Matches(a, alo, ahi, b, blo, bhi) ==
    LET m == find_longest_match(a, alo, ahi, b, blo, bhi)
    IN  IF m.size = 0
        THEN 0
        ELSE m.size + Matches(a, alo, m.i, b, blo, m.j)
                    + Matches(a, m.i + m.size, ahi, b, m.j + m.size, bhi)

\* _calculate_fuzzy_similarity: SequenceMatcher(None, text1, text2).ratio()
calculate_fuzzy_similarity(text1, text2) ==
    IF Len(text1) + Len(text2) = 0
    THEN Frac(1, 1)
    ELSE Frac(2 * Matches(text1, 0, Len(text1), text2, 0, Len(text2)),
              Len(text1) + Len(text2))

\* _check_context_match
check_context_match(fact, pattern) ==
    LET fact_source     == Lower(fact.source_doc)
        pattern_source  == Lower(Get(pattern.context, "source_doc", <<>>))
        fact_context    == Get(fact.clinical_context, "surrounding_context", <<>>)
        pattern_context == Get(pattern.context, "surrounding_context", <<>>)
    IN  IF pattern_source # <<>> /\ Contains(pattern_source, fact_source)
        THEN TRUE
        ELSE IF fact_context # <<>> /\ pattern_context # <<>>
        THEN LET s == calculate_token_similarity(fact_context, pattern_context)
             IN  2 * s.n > s.d
        ELSE FALSE

\* a confidence without the cap
calculate_match_confidence_uncapped(fact, pattern) ==
    IF fact.fact_type # Get(pattern.context, "fact_type", None)
    THEN Frac(0, 1)
    ELSE LET fact_text    == Lower(fact.fact)
             pattern_text == Lower(pattern.original_extraction)
         IN  IF Contains(pattern_text, fact_text) \/ Contains(fact_text, pattern_text)
             THEN Frac(1, 1)
             ELSE LET token_score   == calculate_token_similarity(fact_text, pattern_text)
                      fuzzy_score   == calculate_fuzzy_similarity(fact_text, pattern_text)
                      base_score    == FracMax(token_score, fuzzy_score)
                      context_bonus == IF check_context_match(fact, pattern)
                                       THEN Frac(1, 10) ELSE Frac(0, 1)
                  IN  FracAdd(base_score, context_bonus)

calculate_match_confidence(fact, pattern) ==
    IF fact.fact_type # Get(pattern.context, "fact_type", None)
    THEN Frac(0, 1)
    ELSE LET fact_text    == Lower(fact.fact)
             pattern_text == Lower(pattern.original_extraction)
         IN  IF Contains(pattern_text, fact_text) \/ Contains(fact_text, pattern_text)
             THEN Frac(1, 1)
             ELSE LET token_score   == calculate_token_similarity(fact_text, pattern_text)
                      fuzzy_score   == calculate_fuzzy_similarity(fact_text, pattern_text)
                      base_score    == FracMax(token_score, fuzzy_score)
                      context_bonus == IF check_context_match(fact, pattern)
                                       THEN Frac(1, 10) ELSE Frac(0, 1)
                  IN  FracMin(Frac(1, 1), FracAdd(base_score, context_bonus))

\* the matcher's default min_confidence
min_confidence == Frac(7, 10)

Matched(fact, pattern) == FracGeq(calculate_match_confidence(fact, pattern), min_confidence)

\* C13: apply_corrections corrects a fact with a pattern exactly when the
\* pattern is applicable and its match confidence against the fact is at
\* least 0.70: the pattern a fact is corrected with has that confidence, and
\* a fact some applicable pattern matches with that confidence is corrected.
C13_AppliedExactlyWhenMatched ==
    \A i \in 1..Len(facts) :
        LET found == find_matching_approved_correction(facts[i], feedback_database)
        IN  /\ found.pattern_id # None =>
                   \E j \in 1..Len(feedback_database) :
                       /\ feedback_database[j].pattern_hash = found.pattern_id
                       /\ Applicable(feedback_database[j])
                       /\ Matched(facts[i], feedback_database[j])
            /\ (\E j \in 1..Len(feedback_database) :
                    /\ Applicable(feedback_database[j])
                    /\ Matched(facts[i], feedback_database[j]))
                   => found.pattern_id # None


(***************************************************************************)
(* EnhancedTimelineBuilder: facts of the other types and their values.     *)
(***************************************************************************)
clinical_score == <<"c", "s">>
lab_value == <<"l", "v">>
complication == <<"c", "o">>
procedure == <<"p", "r">>
recommendation == <<"r", "e">>

\* severity names are kept whole
CRITICAL == <<"CRITICAL">>
NORMAL == <<"NORMAL">>

\* a normalized_value is None, an int, or a ClinicalConcept of a lab
IntValue(n) == <<"int", n>>

ClinicalConcept(name, value, severity) == <<"ClinicalConcept", name, value, severity>>

\* the truth value Python gives a normalized_value
Truthy(v) == v # None /\ v # IntValue(0)

\* a fact as the extractor constructs it for a score, lab, complication...
TypedFact(text, source_doc, timestamp, type, normalized_value, severity) ==
    [HybridClinicalFact(text, source_doc, timestamp, Dec(8, 1), type, EmptyDict)
        EXCEPT !.normalized_value = normalized_value, !.severity = severity]

(***************************************************************************)
(* _build_chronological_timeline: the days in the order the dictionary     *)
(* received them, each with its facts.                                     *)
(***************************************************************************)
\* a key that is the time alone
DayKeyLeq_time_only(x, y) == x.absolute_timestamp <= y.absolute_timestamp

\* key (absolute_timestamp, -confidence) of x not after that of y
DayKeyLeq(x, y) ==
    \/ x.absolute_timestamp < y.absolute_timestamp
    \/ /\ x.absolute_timestamp = y.absolute_timestamp
       /\ DecGeq(ConfidenceValue(x.confidence), ConfidenceValue(y.confidence))

RECURSIVE InsertByDayKey(_, _)
InsertByDayKey(sorted, x) ==
    IF sorted = <<>> THEN <<x>>
    ELSE IF DayKeyLeq(sorted[Len(sorted)], x)
         THEN Append(sorted, x)
         ELSE Append(InsertByDayKey(SubSeq(sorted, 1, Len(sorted) - 1), x),
                     sorted[Len(sorted)])

RECURSIVE SortedByDayKey(_)
\* sorted(facts, key=...), which is stable
SortedByDayKey(seq) ==
    IF seq = <<>> THEN <<>>
    ELSE InsertByDayKey(SortedByDayKey(SubSeq(seq, 1, Len(seq) - 1)), seq[Len(seq)])

\* d[key].append(item) on a defaultdict(list) held as a list of entries
AppendUnder(d, key, item) ==
    IF \E k \in 1..Len(d) : d[k].key = key
    THEN [k \in 1..Len(d) |->
             IF d[k].key = key
             THEN [d[k] EXCEPT !.items = Append(@, item)]
             ELSE d[k]]
    ELSE Append(d, [key |-> key, items |-> <<item>>])

RECURSIVE GroupByDate(_)
GroupByDate(fs) ==
    IF fs = <<>> THEN <<>>
    ELSE AppendUnder(GroupByDate(SubSeq(fs, 1, Len(fs) - 1)),
                     DateOf(fs[Len(fs)].absolute_timestamp), fs[Len(fs)])

build_chronological_timeline(fs) ==
    LET grouped == GroupByDate(fs)
    IN  [k \in 1..Len(grouped) |->
            [key |-> grouped[k].key, items |-> SortedByDayKey(grouped[k].items)]]

RECURSIVE InsertByKey(_, _)
InsertByKey(sorted, x) ==
    IF sorted = <<>> THEN <<x>>
    ELSE IF sorted[Len(sorted)].key <= x.key
         THEN Append(sorted, x)
         ELSE Append(InsertByKey(SubSeq(sorted, 1, Len(sorted) - 1), x),
                     sorted[Len(sorted)])

RECURSIVE SortedByKey(_)
\* the entries in the order of sorted(timeline.keys())
SortedByKey(d) ==
    IF d = <<>> THEN <<>>
    ELSE InsertByKey(SortedByKey(SubSeq(d, 1, Len(d) - 1)), d[Len(d)])

(***************************************************************************)
(* _identify_clinical_progression                                          *)
(***************************************************************************)
Colon == ":"

\* position of the first c in s from i on, Len(s) + 1 when there is none
RECURSIVE FirstAt(_, _, _)
FirstAt(s, c, i) ==
    IF i > Len(s) \/ s[i] = c THEN i ELSE FirstAt(s, c, i + 1)

\* len(s.split(':'))
SplitLen(s) == Cardinality({i \in 1..Len(s) : s[i] = Colon}) + 1

\* s.split(':')[0]
SplitFirst(s) == SubSeq(s, 1, FirstAt(s, Colon, 1) - 1)

\* s.split(':')[1], for a text holding a colon
SplitSecond(s) ==
    LET i == FirstAt(s, Colon, 1)
    IN  SubSeq(s, i + 1, FirstAt(s, Colon, i + 1) - 1)

RECURSIVE Strip(_)
\* str.strip()
Strip(s) ==
    IF s = <<>> THEN s
    ELSE IF Head(s) = Space THEN Strip(Tail(s))
    ELSE IF s[Len(s)] = Space THEN Strip(SubSeq(s, 1, Len(s) - 1))
    ELSE s

\* the entry a clinical_score fact adds to scores_over_time; reading
\* split(':')[1] of a text without a colon raises IndexError
ScoreEntry(date_key, fact) ==
    IF ~Truthy(fact.normalized_value) /\ SplitLen(fact.fact) < 2
    THEN Raised
    ELSE Returned([name  |-> SplitFirst(fact.fact),
                   entry |-> [date       |-> date_key,
                              value      |-> IF Truthy(fact.normalized_value)
                                             THEN fact.normalized_value
                                             ELSE <<"str", Strip(SplitSecond(fact.fact))>>,
                              source     |-> fact.source_doc,
                              confidence |-> fact.confidence]])

LabEntry(date_key, fact) ==
    [date     |-> date_key,
     value    |-> fact.normalized_value[3],
     severity |-> fact.normalized_value[4],
     source   |-> fact.source_doc]

\* int(v) for a str, the value itself otherwise; ValueError for a text that
\* is not a number
AsInt(v) ==
    IF v[1] = "str"
    THEN IF v[2] # <<>> /\ \A i \in 1..Len(v[2]) : v[2][i] \in DigitChars
         THEN Returned(ToInt(v[2]))
         ELSE Raised
    ELSE Returned(v[2])

Abs(n) == IF n < 0 THEN -n ELSE n

NIHSS == <<"N", "I", "H", "S", "S">>
mRS == <<"m", "R", "S">>
GCS == <<"G", "C", "S">>

\* a trend of the first two values of the series
analyze_score_trend_adjacent(score_name, values) ==
    IF Len(values) < 2
    THEN "insufficient_data"
    ELSE LET first == AsInt(values[1].value)
             last  == AsInt(values[2].value)
         IN  IF first.raised \/ last.raised
             THEN "unable_to_analyze"
             ELSE LET first_val == first.value
                      last_val  == last.value
                  IN  IF Abs(last_val - first_val) <= 1
                      THEN "stable"
                      ELSE IF score_name \in {NIHSS, mRS}
                      THEN (IF last_val < first_val THEN "improving" ELSE "worsening")
                      ELSE IF score_name = GCS
                      THEN (IF last_val > first_val THEN "improving" ELSE "worsening")
                      ELSE IF last_val > first_val THEN "increasing" ELSE "decreasing"

\* _analyze_score_trend
analyze_score_trend(score_name, values) ==
    IF Len(values) < 2
    THEN "insufficient_data"
    ELSE LET first == AsInt(values[1].value)
             last  == AsInt(values[Len(values)].value)
         IN  IF first.raised \/ last.raised
             THEN "unable_to_analyze"
             ELSE LET first_val == first.value
                      last_val  == last.value
                  IN  IF Abs(last_val - first_val) <= 1
                      THEN "stable"
                      ELSE IF score_name \in {NIHSS, mRS}
                      THEN (IF last_val < first_val THEN "improving" ELSE "worsening")
                      ELSE IF score_name = GCS
                      THEN (IF last_val > first_val THEN "improving" ELSE "worsening")
                      ELSE IF last_val > first_val THEN "increasing" ELSE "decreasing"

sodium == <<"s", "o", "d", "i", "u", "m">>

\* the 'range' entries of lab_ranges for the labs of the model
lab_ranges == (sodium :> <<135, 145>>)

RECURSIVE InsertByDate(_, _)
InsertByDate(sorted, x) ==
    IF sorted = <<>> THEN <<x>>
    ELSE IF sorted[Len(sorted)].date <= x.date
         THEN Append(sorted, x)
         ELSE Append(InsertByDate(SubSeq(sorted, 1, Len(sorted) - 1), x),
                     sorted[Len(sorted)])

RECURSIVE SortedByDate(_)
\* sorted(values, key=lambda x: x[0])
SortedByDate(seq) ==
    IF seq = <<>> THEN <<>>
    ELSE InsertByDate(SortedByDate(SubSeq(seq, 1, Len(seq) - 1)), seq[Len(seq)])

\* ClinicalKnowledgeBase.interpret_lab_trend; the division by a first value
\* of 0 raises ZeroDivisionError
interpret_lab_trend(lab_name, values) ==
    IF Len(values) < 2
    THEN Returned([trend |-> "insufficient_data"])
    ELSE LET sorted_values == SortedByDate(values)
             first_val     == sorted_values[1].value
             last_val      == sorted_values[Len(sorted_values)].value
         IN  IF first_val = 0
             THEN Raised
             ELSE LET trend ==
                          \* abs(last_val - first_val) / first_val < 0.1
                          IF first_val < 0 \/ 10 * Abs(last_val - first_val) < first_val
                          THEN "stable"
                          ELSE IF last_val > first_val THEN "increasing"
                          ELSE "decreasing"
                      normal_range == Get(lab_ranges, Lower(lab_name), <<>>)
                      InRange(v) == normal_range[1] <= v /\ v <= normal_range[2]
                      clinical_significance ==
                          IF normal_range = <<>> THEN trend
                          ELSE IF ~InRange(first_val) /\ InRange(last_val)
                          THEN "improving_to_normal"
                          ELSE IF InRange(first_val) /\ ~InRange(last_val)
                          THEN "worsening_from_normal"
                          ELSE trend
                  IN  Returned([trend                 |-> trend,
                                clinical_significance |-> clinical_significance,
                                first_value           |-> first_val,
                                last_value            |-> last_val,
                                change_percent        |->
                                    Frac(100 * Abs(last_val - first_val), Abs(first_val))])

RECURSIVE ScoresOverTime(_, _)
\* scores_over_time after the facts fs[1..n], or Raised
ScoresOverTime(fs, n) ==
    IF n = 0 THEN Returned(<<>>)
    ELSE LET before == ScoresOverTime(fs, n - 1)
         IN  IF before.raised THEN Raised
             ELSE IF fs[n].fact.fact_type # clinical_score THEN before
             ELSE LET e == ScoreEntry(fs[n].date, fs[n].fact)
                  IN  IF e.raised THEN Raised
                      ELSE Returned(AppendUnder(before.value, e.value.name, e.value.entry))

RECURSIVE LabsOverTime(_, _)
LabsOverTime(fs, n) ==
    IF n = 0 THEN <<>>
    ELSE IF fs[n].fact.fact_type = lab_value /\ Truthy(fs[n].fact.normalized_value)
         THEN AppendUnder(LabsOverTime(fs, n - 1), fs[n].fact.normalized_value[2],
                          LabEntry(fs[n].date, fs[n].fact))
         ELSE LabsOverTime(fs, n - 1)

RECURSIVE LabTrends(_, _)
\* progression['laboratory'] after the labs d[1..n], or Raised
LabTrends(d, n) ==
    IF n = 0 THEN Returned(<<>>)
    ELSE LET before == LabTrends(d, n - 1)
         IN  IF before.raised THEN Raised
             ELSE IF Len(d[n].items) <= 1 THEN before
             ELSE LET trend == interpret_lab_trend(d[n].key, d[n].items)
                  IN  IF trend.raised THEN Raised
                      ELSE Returned(Append(before.value,
                                           [lab    |-> d[n].key,
                                            trend  |-> trend.value,
                                            values |-> d[n].items]))

\* the facts of the timeline day by day, each with its date_key
DatedFacts(timeline) ==
    LET days == SortedByKey(timeline)
        Dated(k) == [i \in 1..Len(days[k].items) |->
                        [date |-> days[k].key, fact |-> days[k].items[i]]]
        RECURSIVE Upto(_)
        Upto(k) == IF k = 0 THEN <<>> ELSE Upto(k - 1) \o Dated(k)
    IN  Upto(Len(days))

identify_clinical_progression(timeline) ==
    LET fs     == DatedFacts(timeline)
        scores == ScoresOverTime(fs, Len(fs))
        labs   == LabsOverTime(fs, Len(fs))
        Of(types) == SelectSeq(fs, LAMBDA x : x.fact.fact_type \in types)
        complications == Of({complication})
        interventions == Of({procedure, recommendation})
    IN  IF scores.raised THEN Raised
        ELSE LET trended == SelectSeq(scores.value, LAMBDA s : Len(s.items) > 1)
                 lab_trends == LabTrends(labs, Len(labs))
             IN  IF lab_trends.raised THEN Raised
                 ELSE Returned(
                     [neurological |->
                          [k \in 1..Len(trended) |->
                              [metric |-> trended[k].key,
                               trend  |-> analyze_score_trend(trended[k].key, trended[k].items),
                               values |-> trended[k].items]],
                      laboratory |-> lab_trends.value,
                      complications |->
                          [k \in 1..Len(complications) |->
                              [date         |-> complications[k].date,
                               complication |-> complications[k].fact.fact,
                               severity     |-> complications[k].fact.severity,
                               source       |-> complications[k].fact.source_doc]],
                      interventions |->
                          [k \in 1..Len(interventions) |->
                              [date         |-> interventions[k].date,
                               intervention |-> interventions[k].fact.fact,
                               type         |-> interventions[k].fact.fact_type,
                               source       |-> interventions[k].fact.source_doc]]])


(***************************************************************************)
(* _identify_key_events, _calculate_timeline_bounds,                       *)
(* _calculate_hospital_days, build_timeline                                *)
(***************************************************************************)
\* the facts of the timeline in the order of timeline.items(), with their day
ItemFacts(timeline) ==
    LET Dated(k) == [i \in 1..Len(timeline[k].items) |->
                        [date |-> timeline[k].key, fact |-> timeline[k].items[i]]]
        RECURSIVE Upto(_)
        Upto(k) == IF k = 0 THEN <<>> ELSE Upto(k - 1) \o Dated(k)
    IN  Upto(Len(timeline))

KeyEvent(date_key, timestamp, type, description, category) ==
    [date |-> date_key, timestamp |-> timestamp, type |-> type,
     description |-> description, significance |-> "HIGH", category |-> category]

identify_key_events(timeline, anchors) ==
    LET fs == ItemFacts(timeline)
        EventsOf(Test(_), type, category) ==
            LET chosen == SelectSeq(fs, Test)
            IN  [k \in 1..Len(chosen) |->
                    KeyEvent(chosen[k].date, chosen[k].fact.absolute_timestamp, type,
                             chosen[k].fact.fact, category)]
        IsComplication(x) == x.fact.fact_type = complication
        IsCriticalLab(x)  == x.fact.fact_type = lab_value /\ x.fact.severity = CRITICAL
        IsProcedure(x)    == x.fact.fact_type = procedure
    IN  SortedByTimestamp(
            [k \in 1..Len(anchors) |->
                KeyEvent(DateOf(anchors[k].timestamp), anchors[k].timestamp,
                         anchors[k].type, anchors[k].description, "milestone")]
            \o EventsOf(IsComplication, "complication", "complication")
            \o EventsOf(IsCriticalLab, "critical_lab", "laboratory")
            \o EventsOf(IsProcedure, "procedure", "intervention"))

\* an Optional[datetime] that is not None
DateTime(ts) == <<"datetime", ts>>

discharge == <<"d", "i", "s", "c", "h", "a", "r", "g", "e">>

calculate_timeline_bounds(timeline, anchors) ==
    LET admission_anchors == SelectSeq(anchors, LAMBDA a : a.type = "admission")
        discharge_facts ==
            SelectSeq(ItemFacts(timeline),
                      LAMBDA x : /\ Contains(discharge, Lower(x.fact.source_doc))
                                 /\ x.fact.fact_type # temporal_reference)
        times == {discharge_facts[k].fact.absolute_timestamp : k \in 1..Len(discharge_facts)}
    IN  [admission_date |-> IF admission_anchors # <<>>
                            THEN DateTime(admission_anchors[1].timestamp)
                            ELSE None,
         discharge_date |-> IF discharge_facts # <<>>
                            THEN DateTime(CHOOSE t \in times : \A u \in times : u <= t)
                            ELSE None]

\* a count that leaves the admission day out
calculate_hospital_days_exclusive(admission_date, discharge_date) ==
    IF admission_date = None \/ discharge_date = None
    THEN 0
    ELSE (discharge_date[2] - admission_date[2]) \div Day

calculate_hospital_days(admission_date, discharge_date) ==
    IF admission_date = None \/ discharge_date = None
    THEN 0
    ELSE ((discharge_date[2] - admission_date[2]) \div Day) + 1

ClinicalTimeline(timeline, progression, key_events, anchor_events, bounds, total_days) ==
    [timeline |-> timeline, progression |-> progression, key_events |-> key_events,
     anchor_events |-> anchor_events, admission_date |-> bounds.admission_date,
     discharge_date |-> bounds.discharge_date, total_hospital_days |-> total_days]

\* build_timeline: the ClinicalTimeline it returns, or Raised when a step raises
build_timeline(fs, docs) ==
    LET anchors        == identify_anchor_events(docs)
        resolved_facts == resolve_temporal_references(fs, anchors)
        timeline_dict  == build_chronological_timeline(resolved_facts)
        progression    == identify_clinical_progression(timeline_dict)
        key_events     == identify_key_events(timeline_dict, anchors)
        bounds         == calculate_timeline_bounds(timeline_dict, anchors)
        total_days     == calculate_hospital_days(bounds.admission_date, bounds.discharge_date)
    IN  IF progression.raised
        THEN Raised
        ELSE Returned(ClinicalTimeline(timeline_dict, progression.value, key_events, anchors,
                                       bounds, total_days))


(***************************************************************************)
(* A hospital course: the notes a run may be given, the run itself         *)
(* (extraction, learned corrections, timeline) and repeated runs.          *)
(***************************************************************************)
crp == <<"c", "r", "p">>

LabFact(name, value, severity, source_doc, timestamp) ==
    TypedFact(name, source_doc, timestamp, lab_value,
              ClinicalConcept(name, value, severity), severity)

ScoreFact(text, value, source_doc, timestamp) ==
    TypedFact(text, source_doc, timestamp, clinical_score, value, None)

\* the notes of the course with the facts the extractor reads in each
CourseNotes ==
    <<ClinicalDocument("admission_note", At(1, 8),
          <<LabFact(sodium, 140, NORMAL, <<"a">>, At(1, 8)),
            ScoreFact(<<"N", "I", "H", "S", "S", ":", " ", "6">>, IntValue(6), <<"a">>,
                      At(1, 8))>>),
      ClinicalDocument("admission_note", At(2, 8), <<>>),
      ClinicalDocument("operative_note", At(2, 14),
          <<TypedFact(<<"c">>, <<"o">>, At(2, 14), procedure, None, None)>>),
      ClinicalDocument("progress_note", At(3, 8),
          <<[TemporalFact(<<"P", "O", "D", "#", "2">>, "post_operative_day", At(3, 8))
                EXCEPT !.confidence = [base |-> Dec(9, 1), factors |-> <<>>]],
            ScoreFact(<<"N", "I", "H", "S", "S", ":", " ", "9">>, IntValue(9), <<"p">>,
                      At(3, 8)),
            [TypedFact(<<"v">>, <<"p">>, At(3, 8), complication, None, None)
                EXCEPT !.confidence = [base |-> Dec(9, 1), factors |-> <<>>]]>>),
      ClinicalDocument("lab_report", At(3, 10),
          <<LabFact(sodium, 120, CRITICAL, <<"l">>, At(3, 10)),
            LabFact(crp, 0, <<"UNKNOWN">>, <<"l">>, At(3, 10))>>),
      ClinicalDocument("lab_report", At(4, 8),
          <<LabFact(crp, 5, <<"UNKNOWN">>, <<"l">>, At(4, 8))>>),
      ClinicalDocument("consult_note", At(4, 10),
          <<ScoreFact(<<"G", "C", "S", " ", "9">>, None, <<"n">>, At(4, 10))>>),
      ClinicalDocument("discharge_summary", At(5, 10),
          <<TypedFact(<<"a", "b">>, discharge, At(5, 12), <<"m">>, None, None),
            ScoreFact(<<"m", "R", "S", ":", "0">>, IntValue(0), discharge, At(5, 10))>>)>>

RECURSIVE Chosen(_, _)
\* the notes of CourseNotes[1..n] that are in the set of positions S
Chosen(S, n) ==
    IF n = 0 THEN <<>>
    ELSE IF n \in S THEN Append(Chosen(S, n - 1), CourseNotes[n])
    ELSE Chosen(S, n - 1)

Reversed(s) == [k \in 1..Len(s) |-> s[Len(s) + 1 - k]]

\* the document sets of a run: any notes of the course, oldest or newest first
CourseDocuments ==
    {Chosen(S, Len(CourseNotes)) : S \in SUBSET (1..Len(CourseNotes))}
    \cup {Reversed(Chosen(S, Len(CourseNotes))) : S \in SUBSET (1..Len(CourseNotes))}

InitCourse ==
    /\ TasksIdle
    /\ documents \in CourseDocuments
    /\ facts = <<>>
    /\ clinical_timeline = NotBuilt
    /\ CacheUnused
    /\ feedback_database \in Stores
    /\ application_stats = EmptyDict

\* one run over the documents: the facts are extracted anew, the learned
\* corrections applied to them, and the timeline built from the result; the
\* resolver has by then rewritten the facts of the run
ProcessHospitalCourse ==
    LET r == apply_corrections(Extract(documents), feedback_database, application_stats)
    IN  /\ \A j \in 1..Len(r.db) : r.db[j].applied_count <= MaxCount
        /\ feedback_database' = r.db
        /\ application_stats' = r.stats
        /\ facts' = resolve_temporal_references(r.facts, identify_anchor_events(documents))
        /\ clinical_timeline' = build_timeline(r.facts, documents)
        /\ UNCHANGED <<pc, loc, running, documents, cacheVars>>

NextCourse == ProcessHospitalCourse

SpecCourse == InitCourse /\ [][NextCourse]_vars

\* C20: neither temporal resolution nor timeline building aborts: every run
\* over well-formed documents and facts returns a timeline.
C20_TimelineAlwaysReturned ==
    clinical_timeline # NotBuilt => ~clinical_timeline.raised

C29_OnlyTemporalFactsChange ==
    /\ Len(Resolved) = Len(facts)
    /\ \A i \in 1..Len(facts) :
           /\ Resolved[i].fact = facts[i].fact
           /\ Resolved[i].fact_type = facts[i].fact_type
           /\ Resolved[i].timestamp = facts[i].timestamp
           /\ ~IsTemporal(facts[i]) => Resolved[i] = facts[i]

C29_Witness ==
    /\ \E i \in 1..Len(facts) : ~IsTemporal(facts[i])
    /\ \E i \in 1..Len(facts) : IsTemporal(facts[i]) /\ MarkedResolved(facts[i])

\* C30: resolution never lowers a confidence: every temporal reference
\* comes out of resolve_temporal_references with a confidence at least the
\* one it went in with.
C30_ConfidenceNeverLowered ==
    \A i \in 1..Len(facts) :
        IsTemporal(facts[i]) =>
            DecGeq(ConfidenceValue(Resolved[i].confidence),
                   ConfidenceValue(facts[i].confidence))


(***************************************************************************)
(* The timeline a run returned.                                            *)
(***************************************************************************)
Built == clinical_timeline # NotBuilt /\ ~clinical_timeline.raised

TimelineDays == clinical_timeline.value.timeline

\* the places <<day, position>> of the timeline that hold the fact f
PlacesOf(f) ==
    {p \in UNION {{<<k, j>> : j \in 1..Len(TimelineDays[k].items)} :
                      k \in 1..Len(TimelineDays)} :
        TimelineDays[p[1]].items[p[2]] = f}

\* C21: every fact of the run is in the timeline exactly once, under the
\* calendar date of its resolved timestamp; within a date the facts are in
\* ascending time and, at equal times, descending confidence.
C21_FactsFiledOnceInOrder ==
    Built =>
        /\ \A k, l \in 1..Len(TimelineDays) :
               TimelineDays[k].key = TimelineDays[l].key => k = l
        /\ \A i \in 1..Len(facts) :
               /\ Cardinality(PlacesOf(facts[i])) = 1
               /\ \A p \in PlacesOf(facts[i]) :
                      TimelineDays[p[1]].key = DateOf(facts[i].absolute_timestamp)
        /\ \A k \in 1..Len(TimelineDays) :
               \A j \in 1..(Len(TimelineDays[k].items) - 1) :
                   LET x == TimelineDays[k].items[j]
                       y == TimelineDays[k].items[j + 1]
                   IN  \/ x.absolute_timestamp < y.absolute_timestamp
                       \/ /\ x.absolute_timestamp = y.absolute_timestamp
                          /\ DecGeq(ConfidenceValue(x.confidence),
                                    ConfidenceValue(y.confidence))

C21_Witness ==
    /\ Built
    /\ \E i \in 1..Len(facts) :
           /\ MarkedResolved(facts[i])
           /\ DateOf(facts[i].absolute_timestamp) # DateOf(facts[i].timestamp)
    /\ \E k \in 1..Len(TimelineDays) :
           \E j \in 1..(Len(TimelineDays[k].items) - 1) :
               /\ TimelineDays[k].items[j].absolute_timestamp
                      = TimelineDays[k].items[j + 1].absolute_timestamp
               /\ TimelineDays[k].items[j].confidence
                      # TimelineDays[k].items[j + 1].confidence
    /\ \E k \in 1..Len(TimelineDays) :
           \E j \in 1..(Len(TimelineDays[k].items) - 1) :
               TimelineDays[k].items[j].absolute_timestamp
                   < TimelineDays[k].items[j + 1].absolute_timestamp


\* the resolved times of the facts of the run that count for the discharge
DischargeTimes ==
    {facts[i].absolute_timestamp :
        i \in {x \in 1..Len(facts) :
                  /\ ~IsTemporal(facts[x])
                  /\ Contains(discharge, Lower(facts[x].source_doc))}}

\* C22: the admission date of the timeline is the earliest admission
\* anchor, the discharge date the latest resolved timestamp among the
\* non-temporal facts of a discharge document, and total_hospital_days is
\* (discharge - admission).days + 1 when both exist and 0 otherwise.
C22_BoundsAndHospitalDays ==
    Built =>
        LET t == clinical_timeline.value
            admissions == NoteTimes("admission_note")
        IN  /\ t.admission_date =
                   IF admissions = {} THEN None ELSE DateTime(Earliest(admissions))
            /\ t.discharge_date =
                   IF DischargeTimes = {} THEN None ELSE DateTime(Latest(DischargeTimes))
            /\ t.total_hospital_days =
                   IF admissions = {} \/ DischargeTimes = {}
                   THEN 0
                   ELSE ((Latest(DischargeTimes) - Earliest(admissions)) \div Day) + 1

C22_Witness ==
    /\ Built
    /\ Cardinality(NoteTimes("admission_note")) > 1
    /\ documents[1].doc_type = "discharge_summary"
    /\ Cardinality(DischargeTimes) > 1
    /\ clinical_timeline.value.total_hospital_days = 5


(***************************************************************************)
(* The Redis cache manager.  The server is the dict of the keys it holds;  *)
(* a key is <<namespace, hash>>; time-to-live expiry is not modelled.      *)
(***************************************************************************)
MaxLookups == 2      \* hits, and misses, that the manager may count

\* the client object redis.from_url gives
Client == <<"Redis">>

\* pickle.dumps and pickle.loads
dumps(v) == <<"pickle", v>>
loads(b) == b[2]

\* hashlib.md5(s.encode('utf-8')).hexdigest(), taken to be free of collisions
md5(s) == <<"md5", s>>

\* what a call leaves: the manager, the server, and what it returned
Outcome(self, server, ret) == [self |-> self, server |-> server, ret |-> ret]

\* server.get(key); a failing call raises inside the try block
ClientGet(server, key) == Get(server, key, None)

connect(self, server, ok) ==
    IF ok
    THEN Outcome([self EXCEPT !.client = Client, !.connected = TRUE], server, None)
    ELSE Outcome([self EXCEPT !.client = None, !.connected = FALSE], server, None)

close(self, server) ==
    IF self.client # None
    THEN Outcome([self EXCEPT !.connected = FALSE], server, None)
    ELSE Outcome(self, server, None)

is_connected(self) == self.connected

get_document_classification(self, server, doc_hash, fails) ==
    IF self.client = None THEN Outcome(self, server, None)
    ELSE IF fails THEN Outcome(self, server, None)
    ELSE LET key    == <<"doc_class:", doc_hash>>
             cached == ClientGet(server, key)
         IN  IF cached # None
             THEN Outcome([self EXCEPT !.cache_hits = @ + 1], server, loads(cached))
             ELSE Outcome([self EXCEPT !.cache_misses = @ + 1], server, None)

set_document_classification(self, server, doc_hash, classification, fails) ==
    IF self.client = None THEN Outcome(self, server, None)
    ELSE IF fails THEN Outcome(self, server, None)
    ELSE Outcome(self, Put(server, <<"doc_class:", doc_hash>>, dumps(classification)), None)

get_extracted_facts(self, server, doc_hash, fails) ==
    IF self.client = None THEN Outcome(self, server, None)
    ELSE IF fails THEN Outcome(self, server, None)
    ELSE LET key    == <<"facts:", doc_hash>>
             cached == ClientGet(server, key)
         IN  IF cached # None
             THEN Outcome([self EXCEPT !.cache_hits = @ + 1], server, loads(cached))
             ELSE Outcome([self EXCEPT !.cache_misses = @ + 1], server, None)

set_extracted_facts(self, server, doc_hash, fs, fails) ==
    IF self.client = None THEN Outcome(self, server, None)
    ELSE IF fails THEN Outcome(self, server, None)
    ELSE Outcome(self, Put(server, <<"facts:", doc_hash>>, dumps(fs)), None)

get_complete_result_counting(self, server, result_hash, fails) ==
    IF self.client = None
    THEN Outcome([self EXCEPT !.cache_misses = @ + 1], server, None)
    ELSE IF fails THEN Outcome(self, server, None)
    ELSE LET key    == <<"result:", result_hash>>
             cached == ClientGet(server, key)
         IN  IF cached # None
             THEN Outcome([self EXCEPT !.cache_hits = @ + 1], server, loads(cached))
             ELSE Outcome([self EXCEPT !.cache_misses = @ + 1], server, None)

get_complete_result(self, server, result_hash, fails) ==
    IF self.client = None THEN Outcome(self, server, None)
    ELSE IF fails THEN Outcome(self, server, None)
    ELSE LET key    == <<"result:", result_hash>>
             cached == ClientGet(server, key)
         IN  IF cached # None
             THEN Outcome([self EXCEPT !.cache_hits = @ + 1], server, loads(cached))
             ELSE Outcome([self EXCEPT !.cache_misses = @ + 1], server, None)

set_complete_result(self, server, result_hash, result, fails) ==
    IF self.client = None THEN Outcome(self, server, None)
    ELSE IF fails THEN Outcome(self, server, None)
    ELSE Outcome(self, Put(server, <<"result:", result_hash>>, dumps(result)), None)

\* the patterns are read without counting a hit or a miss
get_learning_patterns(self, server, fails) ==
    IF self.client = None THEN Outcome(self, server, None)
    ELSE IF fails THEN Outcome(self, server, None)
    ELSE LET cached == ClientGet(server, <<"learning_patterns">>)
         IN  IF cached # None
             THEN Outcome(self, server, loads(cached))
             ELSE Outcome(self, server, None)

save_learning_patterns(self, server, patterns, fails) ==
    IF self.client = None THEN Outcome(self, server, None)
    ELSE IF fails THEN Outcome(self, server, None)
    ELSE Outcome(self, Put(server, <<"learning_patterns">>, dumps(patterns)), None)

\* the keys whose namespace the pattern names are deleted
invalidate_pattern(self, server, pattern, fails) ==
    IF self.client = None THEN Outcome(self, server, None)
    ELSE IF fails THEN Outcome(self, server, None)
    ELSE Outcome(self, [k \in {x \in DOMAIN server : x[1] # pattern} |-> server[k]], None)

invalidate_all(self, server, fails) ==
    IF self.client = None THEN Outcome(self, server, None)
    ELSE IF fails THEN Outcome(self, server, None)
    ELSE Outcome(self, <<>>, None)

\* the hashes, values and key namespaces of the calls made on the manager
Hashes == {md5(<<"a">>)}
CachedValues == {<<"u">>, <<"v">>}
Namespaces == {"doc_class:", "facts:", "result:"}

\* the state a call on the manager leaves
Leaves(o) ==
    /\ o.self.cache_hits <= MaxLookups
    /\ o.self.cache_misses <= MaxLookups
    /\ cache_manager' = o.self
    /\ redis' = o.server
    /\ returned' = Returned(o.ret)
    /\ UNCHANGED <<storeVars, taskVars, documents, clinical_timeline>>

Connect == \E ok \in BOOLEAN : Leaves(connect(cache_manager, redis, ok))

Close == Leaves(close(cache_manager, redis))

GetDocumentClassification ==
    \E h \in Hashes, fails \in BOOLEAN :
        Leaves(get_document_classification(cache_manager, redis, h, fails))

SetDocumentClassification ==
    \E h \in Hashes, v \in CachedValues, fails \in BOOLEAN :
        Leaves(set_document_classification(cache_manager, redis, h, v, fails))

GetExtractedFacts ==
    \E h \in Hashes, fails \in BOOLEAN :
        Leaves(get_extracted_facts(cache_manager, redis, h, fails))

SetExtractedFacts ==
    \E h \in Hashes, fails \in BOOLEAN :
        Leaves(set_extracted_facts(cache_manager, redis, h, <<>>, fails))

GetCompleteResult ==
    \E h \in Hashes, fails \in BOOLEAN :
        Leaves(get_complete_result(cache_manager, redis, h, fails))

SetCompleteResult ==
    \E h \in Hashes, v \in CachedValues, fails \in BOOLEAN :
        Leaves(set_complete_result(cache_manager, redis, h, v, fails))

GetLearningPatterns ==
    \E fails \in BOOLEAN : Leaves(get_learning_patterns(cache_manager, redis, fails))

SaveLearningPatterns ==
    \E fails \in BOOLEAN :
        Leaves(save_learning_patterns(cache_manager, redis, feedback_database, fails))

InvalidatePattern ==
    \E p \in Namespaces, fails \in BOOLEAN :
        Leaves(invalidate_pattern(cache_manager, redis, p, fails))

InvalidateAll ==
    \E fails \in BOOLEAN : Leaves(invalidate_all(cache_manager, redis, fails))

\* the server may hold the keys of an earlier process
InitCache ==
    /\ TasksIdle
    /\ documents = <<>>
    /\ facts = <<>>
    /\ clinical_timeline = NotBuilt
    /\ feedback_database \in Stores
    /\ application_stats = EmptyDict
    /\ cache_manager = RedisCacheManager
    /\ redis \in {<<>>, (<<"result:", md5(<<"a">>)>> :> dumps(<<"u">>))}
    /\ returned = NoCall

NextCache ==
    \/ Connect
    \/ Close
    \/ GetDocumentClassification
    \/ SetDocumentClassification
    \/ GetExtractedFacts
    \/ SetExtractedFacts
    \/ GetCompleteResult
    \/ SetCompleteResult
    \/ GetLearningPatterns
    \/ SaveLearningPatterns
    \/ InvalidatePattern
    \/ InvalidateAll

SpecCache == InitCache /\ [][NextCache]_vars

\* a get, set or invalidate made while the manager holds no client
Degraded == cache_manager.client = None /\ cache_manager'.client = None

\* C28: once connecting has failed the manager reports not connected, and
\* every call made until a connection succeeds returns None without raising,
\* leaves the server as it was and leaves the hit and miss counters unchanged.
C28_DegradesWithoutCache ==
    [][/\ cache_manager'.client = None => ~is_connected(cache_manager')
       /\ Degraded =>
            /\ returned' = [raised |-> FALSE, value |-> None]
            /\ redis' = redis
            /\ cache_manager'.cache_hits = cache_manager.cache_hits
            /\ cache_manager'.cache_misses = cache_manager.cache_misses]_vars

\* connecting failed after two hits, with a result the server still holds
C28_Witness ==
    /\ cache_manager.client = None
    /\ cache_manager.cache_hits = 2
    /\ returned = [raised |-> FALSE, value |-> None]
    /\ <<"result:", md5(<<"a">>)>> \in DOMAIN redis


(***************************************************************************)
(* generate_result_hash, and a run that uses the result cache.  A request  *)
(* document is the dict {name, content, date, type} the engine is given.   *)
(***************************************************************************)
\* ord(c) of the characters of a date
ord(c) == IF c = "-" THEN 45 ELSE 48 + DigitValue(c)

RECURSIVE StrLeq(_, _)
\* a <= b for str: by code point, a proper prefix first
StrLeq(a, b) ==
    IF a = <<>> THEN TRUE
    ELSE IF b = <<>> THEN FALSE
    ELSE IF a[1] = b[1] THEN StrLeq(Tail(a), Tail(b))
    ELSE ord(a[1]) < ord(b[1])

RECURSIVE InsertByDateKey(_, _)
\* x placed after the documents whose date is not later: sorted() is stable
InsertByDateKey(sorted, x) ==
    IF sorted = <<>> THEN <<x>>
    ELSE IF StrLeq(Get(sorted[Len(sorted)], "date", <<>>), Get(x, "date", <<>>))
         THEN Append(sorted, x)
         ELSE Append(InsertByDateKey(SubSeq(sorted, 1, Len(sorted) - 1), x),
                     sorted[Len(sorted)])

RECURSIVE sorted_docs(_)
\* sorted(documents, key=lambda x: x.get('date', ''))
sorted_docs(docs) ==
    IF docs = <<>> THEN <<>>
    ELSE InsertByDateKey(sorted_docs(SubSeq(docs, 1, Len(docs) - 1)), docs[Len(docs)])

RECURSIVE content_str(_)
\* ''.join([doc.get('content', '') for doc in docs])
content_str(docs) ==
    IF docs = <<>> THEN <<>>
    ELSE Get(docs[1], "content", <<>>) \o content_str(Tail(docs))

generate_doc_hash(content) == md5(content)

generate_result_hash(docs) == md5(content_str(sorted_docs(docs)))

\* '2024-11-0d', and datetime.fromisoformat of it
IsoDate(day) ==
    <<"2", "0", "2", "4", "-", "1", "1", "-", "0">>
        \o <<CHOOSE c \in DigitChars : DigitValue(c) = day>>

fromisoformat(date) == At(ToInt(SubSeq(date, 9, 10)), 0)

RequestDocument(name, content, day, type) ==
    [name |-> name, content |-> content, date |-> IsoDate(day), type |-> type]

\* the document the engine reads a request document as: its type and date,
\* and the facts of its content (a score, or else a statement of type 'm')
AsClinicalDocument(doc) ==
    LET ts == fromisoformat(doc.date)
    IN  ClinicalDocument(doc.type, ts,
            IF doc.content = <<"N", "I", "H", "S", "S", ":", " ", "6">>
            THEN <<ScoreFact(doc.content, IntValue(6), doc.name, ts)>>
            ELSE <<TypedFact(doc.content, doc.name, ts, <<"m">>, None, None)>>)

AsClinicalDocuments(docs) == [i \in 1..Len(docs) |-> AsClinicalDocument(docs[i])]

\* the result dict of a run, holding the timeline build_timeline gave
ResultDict(built) == <<"dict", built>>

\* what a run leaves and returns, r being what apply_corrections gave
RunOver(cds, r) ==
    [db |-> r.db, stats |-> r.stats,
     facts |-> resolve_temporal_references(r.facts, identify_anchor_events(cds)),
     result |-> ResultDict(build_timeline(r.facts, cds))]

\* one uncached run over the request documents with the given pattern store:
\* the documents are read, the learned corrections applied, the timeline built
process_hospital_course(docs, db, stats) ==
    CHOOSE run \in {RunOver(cds, r) :
                       cds \in {AsClinicalDocuments(docs)},
                       r \in {apply_corrections(Extract(AsClinicalDocuments(docs)), db, stats)}} :
        TRUE

\* the requests: an admission note of day 1 or of day 2 with the same text,
\* a discharge summary and an operative note of the same day 3
AdmissionRequest(day) ==
    RequestDocument(<<"a">>, <<"N", "I", "H", "S", "S", ":", " ", "6">>, day, "admission_note")

DischargeRequest == RequestDocument(discharge, <<"a", "b">>, 3, "discharge_summary")

OperativeRequest == RequestDocument(<<"o">>, <<"c">>, 3, "operative_note")

Requests ==
    {<<AdmissionRequest(1)>>,
     <<AdmissionRequest(2)>>,
     <<DischargeRequest, OperativeRequest>>,
     <<OperativeRequest, DischargeRequest>>}

\* a store whose one pattern ('AB' read as 'b a' in facts of type 'm') awaits approval
PendingStore ==
    add_feedback(<<>>, "unc", <<"A", "B">>, <<"b", " ", "a">>, ("fact_type" :> <<"m">>), "admin").db

InitCached ==
    /\ TasksIdle
    /\ documents \in Requests
    /\ facts = <<>>
    /\ clinical_timeline = NotBuilt
    /\ feedback_database \in {<<>>, PendingStore}
    /\ application_stats = EmptyDict
    /\ cache_manager \in {connect(RedisCacheManager, <<>>, ok).self : ok \in BOOLEAN}
    /\ redis = <<>>
    /\ returned = NoCall

\* process_hospital_course(documents, use_cache=True): the result stored under
\* the key of the documents is returned when there is one; otherwise the run
\* is made and its result stored
ProcessCached ==
    \E fails \in BOOLEAN, key \in {generate_result_hash(documents)},
       run \in {process_hospital_course(documents, feedback_database, application_stats)} :
        LET g == get_complete_result(cache_manager, redis, key, fails)
            s == set_complete_result(g.self, redis, key, run.result, fails)
        IN  /\ g.self.cache_hits <= MaxLookups
            /\ g.self.cache_misses <= MaxLookups
            /\ IF g.ret # None
               THEN /\ cache_manager' = g.self
                    /\ returned' = Returned(g.ret)
                    /\ UNCHANGED <<storeVars, redis, clinical_timeline>>
               ELSE /\ \A j \in 1..Len(run.db) : run.db[j].applied_count <= MaxCount
                    /\ feedback_database' = run.db
                    /\ application_stats' = run.stats
                    /\ facts' = run.facts
                    /\ clinical_timeline' = run.result[2]
                    /\ cache_manager' = s.self
                    /\ redis' = IF run.result[2].raised THEN redis ELSE s.server
                    /\ returned' = IF run.result[2].raised THEN Raised
                                   ELSE Returned(run.result)
            /\ UNCHANGED <<taskVars, documents>>

\* the next request arrives
NextRequest ==
    /\ documents' \in Requests
    /\ UNCHANGED <<storeVars, taskVars, clinical_timeline, cacheVars>>

NextCached ==
    \/ ProcessCached
    \/ NextRequest
    \/ ApprovePattern

SpecCached == InitCached /\ [][NextCached]_vars

\* the step returned a result of the cache
CacheHit == cache_manager'.cache_hits = cache_manager.cache_hits + 1

\* C23: a run that hits the result cache returns what the run without the
\* cache returns for the same documents and the current pattern store.
C23_HitEqualsRecomputation ==
    [][CacheHit =>
          returned'.value =
              process_hospital_course(documents, feedback_database, application_stats).result]_vars

\* the orderings of a list
Orderings(s) ==
    {[i \in 1..Len(s) |-> s[p[i]]] : p \in Permutations(1..Len(s))}

\* C24: every ordering of the documents has the key of the documents.
C24_KeyIgnoresOrder ==
    \A p \in Orderings(documents) : generate_result_hash(p) = generate_result_hash(documents)


(***************************************************************************)
(* normalize_lab_value: the severity of a lab value.  Values and bounds    *)
(* are decimals.                                                           *)
(***************************************************************************)
Spread == 2      \* tenths a tried value may lie off a bound of its lab

LOW == <<"LOW">>
HIGH == <<"HIGH">>
UNKNOWN == <<"UNKNOWN">>

potassium == <<"p", "o", "t", "a", "s", "s", "i", "u", "m">>
glucose == <<"g", "l", "u", "c", "o", "s", "e">>
hemoglobin == <<"h", "e", "m", "o", "g", "l", "o", "b", "i", "n">>
inr == <<"i", "n", "r">>

\* 'range', 'critical_low' and 'critical_high' of the entries of self.lab_ranges
lab_info ==
    (sodium :> [range |-> <<Dec(135, 0), Dec(145, 0)>>,
                critical_low |-> Dec(125, 0), critical_high |-> Dec(155, 0)])
    @@ (potassium :> [range |-> <<Dec(35, 1), Dec(50, 1)>>,
                      critical_low |-> Dec(25, 1), critical_high |-> Dec(65, 1)])
    @@ (glucose :> [range |-> <<Dec(70, 0), Dec(110, 0)>>,
                    critical_low |-> Dec(40, 0), critical_high |-> Dec(500, 0)])
    @@ (hemoglobin :> [range |-> <<Dec(12, 0), Dec(16, 0)>>,
                       critical_low |-> Dec(7, 0), critical_high |-> Dec(20, 0)])
    @@ (inr :> [range |-> <<Dec(8, 1), Dec(12, 1)>>,
                critical_low |-> Dec(5, 1), critical_high |-> Dec(50, 1)])

DecLeq(a, b) == DecGeq(b, a)
DecLess(a, b) == ~DecGeq(a, b)
DecGreater(a, b) == ~DecGeq(b, a)

\* critical only beyond the critical bounds
normalize_lab_value_strict(lab_name, value) ==
    LET lab_name_lower == Lower(lab_name)
    IN  IF lab_name_lower \in DOMAIN lab_info
        THEN LET info         == lab_info[lab_name_lower]
                 normal_range == info.range
                 severity ==
                     IF DecLess(value, info.critical_low) THEN CRITICAL
                     ELSE IF DecGreater(value, info.critical_high) THEN CRITICAL
                     ELSE IF DecLess(value, normal_range[1]) THEN LOW
                     ELSE IF DecGreater(value, normal_range[2]) THEN HIGH
                     ELSE NORMAL
             IN  ClinicalConcept(lab_name, value, severity)
        ELSE ClinicalConcept(lab_name, value, UNKNOWN)

normalize_lab_value(lab_name, value) ==
    LET lab_name_lower == Lower(lab_name)
    IN  IF lab_name_lower \in DOMAIN lab_info
        THEN LET info         == lab_info[lab_name_lower]
                 normal_range == info.range
                 severity ==
                     IF DecLeq(value, info.critical_low) THEN CRITICAL
                     ELSE IF DecGeq(value, info.critical_high) THEN CRITICAL
                     ELSE IF DecLess(value, normal_range[1]) THEN LOW
                     ELSE IF DecGreater(value, normal_range[2]) THEN HIGH
                     ELSE NORMAL
             IN  ClinicalConcept(lab_name, value, severity)
        ELSE ClinicalConcept(lab_name, value, UNKNOWN)

\* the names a lab is reported under, and the values tried for it: those
\* within Spread tenths of a bound, and the sodium values 120 and 140
LabNames == DOMAIN lab_info \cup {<<"S", "o", "d", "i", "u", "m">>, crp}

BoundsOf(lab_name) ==
    IF Lower(lab_name) \in DOMAIN lab_info
    THEN LET info == lab_info[Lower(lab_name)]
         IN  {info.critical_low, info.range[1], info.range[2], info.critical_high}
    ELSE {Dec(5, 0)}

LabValues(lab_name) ==
    {DecAdd(b, Dec(t, 1)) : b \in BoundsOf(lab_name), t \in 0..Spread}
    \cup {DecSub(b, Dec(t, 1)) : b \in BoundsOf(lab_name), t \in 0..Spread}
    \cup {Dec(120, 0), Dec(140, 0)}

InitLabs ==
    /\ TasksIdle
    /\ documents = <<>>
    /\ facts = <<>>
    /\ clinical_timeline = NotBuilt
    /\ feedback_database = <<>>
    /\ application_stats = EmptyDict
    /\ cache_manager = RedisCacheManager
    /\ redis = <<>>
    /\ returned = NoCall

NormalizeLabValue ==
    \E lab_name \in LabNames :
        \E value \in LabValues(lab_name) :
            /\ returned' = Returned(normalize_lab_value(lab_name, value))
            /\ UNCHANGED <<storeVars, taskVars, documents, clinical_timeline, cache_manager, redis>>

NextLabs == NormalizeLabValue

SpecLabs == InitLabs /\ [][NextLabs]_vars

\* the value of the returned concept in tenths, and the bounds of its lab
Tenths(d) == d.num * Pow10(1 - d.exp)
ConceptName == Lower(returned.value[2])
ConceptTenths == Tenths(returned.value[3])
ConceptSeverity == returned.value[4]
KnownLab == returned # NoCall /\ ConceptName \in DOMAIN lab_info

\* C25: the concept of a known lab is CRITICAL when the value is at or below
\* the critical-low or at or above the critical-high bound, otherwise LOW
\* below the normal range and HIGH above it, otherwise NORMAL; sodium 120 is
\* CRITICAL and sodium 140 is NORMAL.
C25_SeverityOfLabValue ==
    KnownLab =>
        LET info == lab_info[ConceptName]
            v    == ConceptTenths
        IN  /\ ConceptSeverity = CRITICAL
                 <=> (v <= Tenths(info.critical_low) \/ v >= Tenths(info.critical_high))
            /\ ConceptSeverity = LOW
                 <=> (v > Tenths(info.critical_low) /\ v < Tenths(info.range[1]))
            /\ ConceptSeverity = HIGH
                 <=> (v < Tenths(info.critical_high) /\ v > Tenths(info.range[2]))
            /\ ConceptSeverity = NORMAL
                 <=> (v >= Tenths(info.range[1]) /\ v <= Tenths(info.range[2]))
            /\ (ConceptName = sodium /\ v = 1200) => ConceptSeverity = CRITICAL
            /\ (ConceptName = sodium /\ v = 1400) => ConceptSeverity = NORMAL

\* a potassium of exactly the critical-high bound 6.5 was classified
C25_Witness ==
    /\ KnownLab
    /\ ConceptName = potassium
    /\ ConceptTenths = 65
    /\ ConceptSeverity = CRITICAL


(***************************************************************************)
(* The validator: six stages over the facts and the timeline of a run.     *)
(* Task 1 is the call of validate; its locals are the facts validated so   *)
(* far, the uncertainties found, and the stages that have run.             *)
(***************************************************************************)
diagnosis == <<"d", "x">>
finding == <<"f">>
NoComplications == <<"n", "o", " ", "c">>

StageOrder ==
    <<"format", "clinical_rules", "temporal", "cross_fact", "contradiction", "completeness">>

ClinicalUncertainty(type, severity, stage) ==
    [uncertainty_type |-> type, severity |-> severity, stage |-> stage]

\* a result that stops the call at the first stage with a finding
StageAfter_short_circuit(stage, found) ==
    IF found # <<>> \/ stage = "completeness" THEN "idle"
    ELSE StageOrder[1 + CHOOSE k \in 1..6 : StageOrder[k] = stage]

\* the stage that runs after a stage, whatever that stage found; "idle" after the last
StageAfter(stage, found) ==
    IF stage = "completeness" THEN "idle"
    ELSE StageOrder[1 + CHOOSE k \in 1..6 : StageOrder[k] = stage]

RECURSIVE FindingsOver(_, _, _)
\* one uncertainty for each position of 1..n that is in S
FindingsOver(S, n, u) ==
    IF n = 0 THEN <<>>
    ELSE IF n \in S THEN Append(FindingsOver(S, n - 1, u), u)
    ELSE FindingsOver(S, n - 1, u)

\* stage 1: the facts of empty text are dropped, each with a MEDIUM finding
FormatSurvivors(fs) == SelectSeq(fs, LAMBDA f : f.fact # <<>>)

validate_format(fs) ==
    FindingsOver({i \in 1..Len(fs) : fs[i].fact = <<>>}, Len(fs),
                 ClinicalUncertainty("INVALID_FORMAT", "MEDIUM", "format"))

\* stage 2: a CRITICAL lab value is a HIGH finding
validate_clinical_rules(fs) ==
    FindingsOver({i \in 1..Len(fs) : fs[i].fact_type = lab_value /\ fs[i].severity = CRITICAL},
                 Len(fs), ClinicalUncertainty("CRITICAL_LAB_VALUE", "HIGH", "clinical_rules"))

\* stage 3: a discharge before the admission is a HIGH finding
validate_temporal(tl) ==
    IF /\ tl.admission_date # None
       /\ tl.discharge_date # None
       /\ tl.discharge_date[2] < tl.admission_date[2]
    THEN <<ClinicalUncertainty("TEMPORAL_INCONSISTENCY", "HIGH", "temporal")>>
    ELSE <<>>

\* stage 4: two values of a score within the hour are a HIGH finding
validate_cross_fact(fs) ==
    IF \E i, j \in 1..Len(fs) :
          /\ i < j
          /\ fs[i].fact_type = clinical_score /\ fs[j].fact_type = clinical_score
          /\ fs[i].normalized_value # fs[j].normalized_value
          /\ Abs(fs[i].timestamp - fs[j].timestamp) <= Hour
    THEN <<ClinicalUncertainty("CONFLICTING_INFORMATION", "HIGH", "cross_fact")>>
    ELSE <<>>

\* stage 5: 'no complications' with a complication is a HIGH finding
detect_contradictions(fs) ==
    IF \E i, j \in 1..Len(fs) :
          /\ fs[i].fact = NoComplications
          /\ fs[j].fact_type = complication
    THEN <<ClinicalUncertainty("CONTRADICTORY_STATEMENTS", "HIGH", "contradiction")>>
    ELSE <<>>

\* stage 6: a missing diagnosis is a HIGH finding
check_completeness(fs) ==
    IF \A i \in 1..Len(fs) : fs[i].fact_type # diagnosis
    THEN <<ClinicalUncertainty("MISSING_INFORMATION", "HIGH", "completeness")>>
    ELSE <<>>

\* the facts handed to the validator, and the timelines
ValidatedPool ==
    {TypedFact(<<>>, <<"d">>, At(1, 8), finding, None, None),
     TypedFact(<<"S", "A", "H">>, <<"d">>, At(1, 8), diagnosis, None, None),
     LabFact(sodium, 120, CRITICAL, <<"l">>, At(3, 10)),
     ScoreFact(<<"N", "I", "H", "S", "S", ":", " ", "6">>, IntValue(6), <<"a">>, At(1, 8)),
     ScoreFact(<<"N", "I", "H", "S", "S", ":", " ", "9">>, IntValue(9), <<"a">>, At(1, 9)),
     TypedFact(NoComplications, <<"o">>, At(2, 14), finding, None, None),
     TypedFact(<<"v">>, <<"p">>, At(3, 8), complication, None, None)}

RECURSIVE ValidatedLists(_)
ValidatedLists(n) ==
    IF n = 0 THEN {<<>>}
    ELSE ValidatedLists(n - 1)
         \cup {Append(fs, f) : fs \in ValidatedLists(n - 1), f \in ValidatedPool}

TimelineWith(admitted, discharged) ==
    Returned(ClinicalTimeline(<<>>, <<>>, <<>>, <<>>,
                              [admission_date |-> DateTime(admitted),
                               discharge_date |-> DateTime(discharged)], 0))

InitValidate ==
    /\ TasksIdle
    /\ documents = <<>>
    /\ facts \in ValidatedLists(MaxFacts)
    /\ clinical_timeline \in {TimelineWith(At(1, 8), At(5, 10)), TimelineWith(At(5, 10), At(1, 8))}
    /\ feedback_database = <<>>
    /\ application_stats = EmptyDict
    /\ CacheUnused

\* validate(facts, timeline) is called
Validate ==
    /\ pc[1] = "idle"
    /\ pc' = [pc EXCEPT ![1] = "format"]
    /\ loc' = [loc EXCEPT ![1] = [validated |-> facts, uncertainties |-> <<>>, ran |-> <<>>]]
    /\ returned' = NoCall
    /\ UNCHANGED <<storeVars, running, documents, clinical_timeline, cache_manager, redis>>

\* a stage ends: its findings are added, and the next stage is entered or,
\* after the last, (validated_facts, uncertainties) is returned
StageEnds(stage, validated, found) ==
    LET l == [validated |-> validated,
              uncertainties |-> loc[1].uncertainties \o found,
              ran |-> Append(loc[1].ran, stage)]
        after == StageAfter(stage, found)
    IN  /\ pc' = [pc EXCEPT ![1] = after]
        /\ IF after = "idle"
           THEN loc' = [loc EXCEPT ![1] = NoLocals] /\ returned' = Returned(l)
           ELSE loc' = [loc EXCEPT ![1] = l] /\ returned' = returned
        /\ UNCHANGED <<storeVars, running, documents, clinical_timeline, cache_manager, redis>>

FormatValidation ==
    /\ pc[1] = "format"
    /\ StageEnds("format", FormatSurvivors(loc[1].validated), validate_format(loc[1].validated))

ClinicalRuleValidation ==
    /\ pc[1] = "clinical_rules"
    /\ StageEnds("clinical_rules", loc[1].validated, validate_clinical_rules(loc[1].validated))

TemporalValidation ==
    /\ pc[1] = "temporal"
    /\ StageEnds("temporal", loc[1].validated, validate_temporal(clinical_timeline.value))

CrossFactValidation ==
    /\ pc[1] = "cross_fact"
    /\ StageEnds("cross_fact", loc[1].validated, validate_cross_fact(loc[1].validated))

ContradictionDetection ==
    /\ pc[1] = "contradiction"
    /\ StageEnds("contradiction", loc[1].validated, detect_contradictions(loc[1].validated))

CompletenessCheck ==
    /\ pc[1] = "completeness"
    /\ StageEnds("completeness", loc[1].validated, check_completeness(loc[1].validated))

NextValidate ==
    \/ Validate
    \/ FormatValidation
    \/ ClinicalRuleValidation
    \/ TemporalValidation
    \/ CrossFactValidation
    \/ ContradictionDetection
    \/ CompletenessCheck

SpecValidate == InitValidate /\ [][NextValidate]_vars

\* the stages that have run when the call is at a stage
RanBefore(stage) == SubSeq(StageOrder, 1, (CHOOSE k \in 1..6 : StageOrder[k] = stage) - 1)

\* the uncertainties of a stage among those returned
ReportedBy(stage) == SelectSeq(returned.value.uncertainties, LAMBDA u : u.stage = stage)

\* C26: a call of validate runs the six stages in their order whatever the
\* earlier stages found: at each stage exactly the stages before it have run,
\* and what is returned comes after all six, holds the facts that passed the
\* format stage, and reports for every later stage what that stage finds in
\* these facts and the timeline.
C26_AllStagesRunInOrder ==
    /\ pc[1] # "idle" => loc[1].ran = RanBefore(pc[1])
    /\ (pc[1] = "idle" /\ returned # NoCall) =>
          LET survivors == SelectSeq(facts, LAMBDA f : f.fact # <<>>)
          IN  /\ returned.value.ran = StageOrder
              /\ returned.value.validated = survivors
              /\ Len(ReportedBy("format")) = Len(facts) - Len(survivors)
              /\ ReportedBy("clinical_rules") = validate_clinical_rules(survivors)
              /\ ReportedBy("temporal") = validate_temporal(clinical_timeline.value)
              /\ ReportedBy("cross_fact") = validate_cross_fact(survivors)
              /\ ReportedBy("contradiction") = detect_contradictions(survivors)
              /\ ReportedBy("completeness") = check_completeness(survivors)

\* the format stage dropped a fact, a critical lab value was found, and the
\* completeness stage still reported the missing diagnosis
C26_Witness ==
    /\ pc[1] = "idle"
    /\ returned # NoCall
    /\ Len(returned.value.validated) < Len(facts)
    /\ ReportedBy("clinical_rules") # <<>>
    /\ ReportedBy("completeness") # <<>>
    /\ returned.value.ran = StageOrder


(***************************************************************************)
(* Extraction of a batch, one task per request document.  A task is at     *)
(* "extracting" until its document is read, then at "extracted" with the   *)
(* facts and the diagnostic of its document; the batch is gathered when    *)
(* every task is there.                                                    *)
(***************************************************************************)
\* the facts read in a request document; a document without content raises
extract_facts(doc) ==
    IF doc.content = None THEN Raised
    ELSE Returned(AsClinicalDocument(doc).content)

\* a task whose failure is not caught: its exception ends the batch
process_document_unisolated(doc) ==
    LET r == extract_facts(doc)
    IN  IF r.raised
        THEN [facts |-> <<>>, error |-> None, raised |-> TRUE]
        ELSE [facts |-> r.value, error |-> None, raised |-> FALSE]

\* the task of one document: a failure is kept as zero facts and a diagnostic
process_document(doc) ==
    LET r == extract_facts(doc)
    IN  IF r.raised
        THEN [facts |-> <<>>, error |-> <<"str", doc.name>>, raised |-> FALSE]
        ELSE [facts |-> r.value, error |-> None, raised |-> FALSE]

RECURSIVE GatheredFacts(_, _)
\* the facts of the first n tasks, in the order of the documents
GatheredFacts(results, n) ==
    IF n = 0 THEN <<>>
    ELSE GatheredFacts(results, n - 1) \o results[n].facts

RECURSIVE GatheredErrors(_, _)
GatheredErrors(results, n) ==
    IF n = 0 THEN <<>>
    ELSE IF results[n].error # None
         THEN Append(GatheredErrors(results, n - 1), results[n].error)
         ELSE GatheredErrors(results, n - 1)

\* the request documents of a batch; one of them has no content
BatchPool ==
    {RequestDocument(<<"a">>, <<"N", "I", "H", "S", "S", ":", " ", "6">>, 1, "progress_note"),
     RequestDocument(<<"i">>, None, 2, "progress_note"),
     RequestDocument(<<"b">>, <<"a", "b">>, 3, "progress_note"),
     RequestDocument(<<"c">>, <<"c">>, 3, "operative_note")}

RECURSIVE Batches(_)
Batches(n) ==
    IF n = 0 THEN {<<>>}
    ELSE Batches(n - 1) \cup {Append(b, d) : b \in Batches(n - 1), d \in BatchPool}

InitBatch ==
    /\ TasksIdle
    /\ documents \in Batches(NumTasks) \ {<<>>}
    /\ facts = <<>>
    /\ clinical_timeline = NotBuilt
    /\ feedback_database = <<>>
    /\ application_stats = EmptyDict
    /\ CacheUnused

BatchTasks == 1..Len(documents)

\* process_documents_parallel creates one task per document
StartBatch ==
    /\ \A t \in Tasks : pc[t] = "idle"
    /\ returned = NoCall
    /\ pc' = [t \in Tasks |-> IF t \in BatchTasks THEN "extracting" ELSE "idle"]
    /\ UNCHANGED <<storeVars, loc, running, documents, clinical_timeline, cacheVars>>

\* the event loop runs the task of one document to its end
ExtractDocument ==
    \E t \in BatchTasks :
        /\ pc[t] = "extracting"
        /\ pc' = [pc EXCEPT ![t] = "extracted"]
        /\ loc' = [loc EXCEPT ![t] = process_document(documents[t])]
        /\ UNCHANGED <<storeVars, running, documents, clinical_timeline, cacheVars>>

\* every task has ended: the results are gathered in the order of the documents
GatherBatch ==
    /\ BatchTasks # {}
    /\ \A t \in BatchTasks : pc[t] = "extracted"
    /\ pc' = [t \in Tasks |-> "idle"]
    /\ loc' = [t \in Tasks |-> NoLocals]
    /\ IF \E t \in BatchTasks : loc[t].raised
       THEN facts' = facts /\ returned' = Raised
       ELSE /\ facts' = GatheredFacts(loc, Len(documents))
            /\ returned' = Returned([facts |-> GatheredFacts(loc, Len(documents)),
                                     errors |-> GatheredErrors(loc, Len(documents))])
    /\ UNCHANGED <<feedback_database, application_stats, running, documents,
                   clinical_timeline, cache_manager, redis>>

NextBatch ==
    \/ StartBatch
    \/ ExtractDocument
    \/ GatherBatch

SpecBatch == InitBatch /\ [][NextBatch]_vars

\* the documents of the batch that have content, and those that have none
Readable == SelectSeq(documents, LAMBDA d : d.content # None)
Unreadable == SelectSeq(documents, LAMBDA d : d.content = None)

RECURSIVE FactsOfBatch(_)
\* the facts of a batch without failing documents
FactsOfBatch(docs) ==
    IF docs = <<>> THEN <<>>
    ELSE FactsOfBatch(SubSeq(docs, 1, Len(docs) - 1))
         \o AsClinicalDocument(docs[Len(docs)]).content

\* C27: a document whose extraction fails gives no facts and one diagnostic,
\* while its task and after the batch: the batch is gathered without raising,
\* its facts are those of the batch without the failing documents, and it has
\* one diagnostic for each failing document.
C27_FailureIsolatedPerDocument ==
    /\ \A t \in BatchTasks :
          pc[t] = "extracted" =>
              /\ ~loc[t].raised
              /\ documents[t].content = None =>
                    (loc[t].facts = <<>> /\ loc[t].error = <<"str", documents[t].name>>)
              /\ documents[t].content # None =>
                    (loc[t].facts = FactsOfBatch(<<documents[t]>>) /\ loc[t].error = None)
    /\ returned # NoCall =>
          /\ ~returned.raised
          /\ returned.value.facts = FactsOfBatch(Readable)
          /\ facts = FactsOfBatch(Readable)
          /\ Len(returned.value.errors) = Len(Unreadable)

\* a gathered batch of a document that failed and a document that was read
C27_Witness ==
    /\ returned # NoCall
    /\ ~returned.raised
    /\ Unreadable # <<>>
    /\ returned.value.facts # <<>>
    /\ Len(returned.value.errors) = 1


(***************************************************************************)
(* The marks resolution leaves, and resolving twice.                       *)
(***************************************************************************)
\* the methods that name a rule
RuleMethods ==
    {"POD_anchor_based", "HD_anchor_based", "relative_hours", "relative_days",
     "relative_previous", "relative_next_morning", "same_day_normalization",
     "same_evening", "relative_same_evening", "relative_next_day"}

\* C31: every fact marked resolved records a resolution method that names
\* the rule used, never 'unresolved'.
C31_ResolvedNamesItsRule ==
    \A i \in 1..Len(facts) :
        MarkedResolved(facts[i]) =>
            /\ "resolution_method" \in DOMAIN facts[i].clinical_context
            /\ facts[i].clinical_context["resolution_method"] \in RuleMethods
            /\ facts[i].clinical_context["resolution_method"] # "unresolved"

\* the facts after one more resolution, and after two
ResolvedOnce == resolve_temporal_references(facts, identify_anchor_events(documents))
ResolvedTwice == resolve_temporal_references(ResolvedOnce, identify_anchor_events(documents))

\* C35: resolving a resolved fact list again changes no fact's absolute
\* timestamp, confidence or resolved marker.
C35_ResolutionIdempotent ==
    \A i \in 1..Len(facts) :
        /\ ResolvedTwice[i].absolute_timestamp = ResolvedOnce[i].absolute_timestamp
        /\ ConfidenceValue(ResolvedTwice[i].confidence) = ConfidenceValue(ResolvedOnce[i].confidence)
        /\ Get(ResolvedTwice[i].clinical_context, "resolved", None)
               = Get(ResolvedOnce[i].clinical_context, "resolved", None)


(***************************************************************************)
(* Relative references: one reference of each relative kind, at several    *)
(* times of the day, resolved in a run.                                    *)
(***************************************************************************)
MaxOffset == 3      \* the largest N of 'N hours after' and 'N days after'

\* 'N hours' and 'N days' as the extractor keeps them in raw_text
OffsetText(n, unit) == <<CHOOSE c \in DigitChars : DigitValue(c) = n>> \o <<" ">> \o unit

\* the times a reference is written at: midnight, 08:30, 18:00, the last evening
ReferenceTimes == {At(1, 0), At(3, 8) + 1, At(3, 18), At(MaxDay, 20)}

\* a reference and the time the rule of its kind gives for it
RelativeCase(raw_text, type, timestamp, expected) ==
    [fact |-> TemporalFact(raw_text, type, timestamp), expected |-> expected]

RelativeCases ==
    {RelativeCase(<<"y">>, "previous_day", t, t - Day) : t \in ReferenceTimes}
    \cup {RelativeCase(<<"n", "d">>, "next_day", t, t + Day) : t \in ReferenceTimes}
    \cup {RelativeCase(<<"o">>, "next_morning", t, ((t \div Day) + 1) * Day + 8 * Hour) :
              t \in ReferenceTimes}
    \cup {RelativeCase(<<"t">>, "same_day", t, (t \div Day) * Day) : t \in ReferenceTimes}
    \cup {RelativeCase(<<"e">>, "same_evening", t, (t \div Day) * Day + 18 * Hour) :
              t \in ReferenceTimes}
    \cup {RelativeCase(OffsetText(n, <<"h", "o", "u", "r", "s">>), "hours_after", t, t + n * Hour) :
              t \in ReferenceTimes, n \in 0..MaxOffset}
    \cup {RelativeCase(OffsetText(n, <<"d", "a", "y", "s">>), "days_after", t, t + n * Day) :
              t \in ReferenceTimes, n \in 0..MaxOffset}

InitRelative ==
    /\ TasksIdle
    /\ documents \in {<<>>, <<Note("admission_note", At(1, 8)), Note("operative_note", At(2, 14))>>}
    /\ \E c \in RelativeCases : facts = <<c.fact>>
    /\ clinical_timeline = NotBuilt
    /\ feedback_database = <<>>
    /\ application_stats = EmptyDict
    /\ CacheUnused

NextRelative == ResolveTemporalReferences

SpecRelative == InitRelative /\ [][NextRelative]_vars

\* the case the fact of the run was written for
CaseOf(f) ==
    CHOOSE c \in RelativeCases :
        /\ c.fact.timestamp = f.timestamp
        /\ c.fact.clinical_context["type"] = f.clinical_context["type"]
        /\ c.fact.clinical_context["raw_text"] = f.clinical_context["raw_text"]

WentThroughResolution(f) ==
    "resolved" \in DOMAIN f.clinical_context \/ "resolution_error" \in DOMAIN f.clinical_context

\* C39: a relative reference that went through resolution has the time its
\* rule gives from the fact's own timestamp t (t - 1 day, t + 1 day, 08:00 of
\* the next day, 00:00 and 18:00 of the day, t + N hours, t + N days) as its
\* absolute timestamp, whatever the anchors; a time no datetime can hold
\* leaves the fact as it was.
C39_RelativeFromOwnTimestamp ==
    \A i \in 1..Len(facts) :
        WentThroughResolution(facts[i]) =>
            LET expected == CaseOf(facts[i]).expected
            IN  IF Representable(expected)
                THEN /\ facts[i].absolute_timestamp = expected
                     /\ MarkedResolved(facts[i]) <=> expected # facts[i].timestamp
                ELSE /\ facts[i].absolute_timestamp = facts[i].timestamp
                     /\ "resolution_error" \in DOMAIN facts[i].clinical_context

\* 'overnight' written at 08:30 of day 3 was resolved to 08:00 of day 4
C39_Witness ==
    /\ Len(facts) = 1
    /\ facts[1].clinical_context["type"] = "next_morning"
    /\ facts[1].timestamp = At(3, 8) + 1
    /\ MarkedResolved(facts[1])
    /\ facts[1].absolute_timestamp = At(4, 8)


(***************************************************************************)
(* Runs over an admission note and a discharge summary of any two days.    *)
(***************************************************************************)
\* the notes of a stay admitted on day a, with a discharge fact of day d
StayNotes(a, d, h) ==
    <<ClinicalDocument("admission_note", At(a, 8), <<>>),
      ClinicalDocument("discharge_summary", At(d, h),
          <<TypedFact(<<"h", "o", "m", "e">>, discharge, At(d, h), recommendation, None, None)>>)>>

StayDocuments ==
    {StayNotes(a, d, h) : a \in 1..4, d \in 1..4, h \in {6, 10}}
    \cup {SubSeq(StayNotes(a, a, 10), 1, 1) : a \in 1..4}
    \cup {SubSeq(StayNotes(d, d, 10), 2, 2) : d \in 1..4}

InitStay ==
    /\ TasksIdle
    /\ documents \in StayDocuments
    /\ facts = <<>>
    /\ clinical_timeline = NotBuilt
    /\ CacheUnused
    /\ feedback_database \in Stores
    /\ application_stats = EmptyDict

NextStay == ProcessHospitalCourse

SpecStay == InitStay /\ [][NextStay]_vars

\* C36: the hospital days of a built timeline are 0 when the admission or the
\* discharge date is unknown and at least 1 otherwise, never negative.
C36_HospitalDaysNeverNegative ==
    Built =>
        LET t == clinical_timeline.value
        IN  IF t.admission_date = None \/ t.discharge_date = None
            THEN t.total_hospital_days = 0
            ELSE t.total_hospital_days >= 1


(***************************************************************************)
(* Score trends: the series of one score, its points handed in any order,  *)
(* gathered as _identify_clinical_progression gathers it and analysed.     *)
(***************************************************************************)
MaxScore == 3       \* the largest score value of a series

ICH == <<"I", "C", "H">>

ScoreNames == {NIHSS, mRS, GCS, ICH}

\* the times the points of a series are recorded at
TrendTimes == {At(1, 8), At(1, 14), At(2, 8)}

\* 'NIHSS: 3' as the extractor writes a score, with the number as its
\* normalized value or with none
ScorePoint(name, v, timestamp, normalized) ==
    ScoreFact(name \o <<Colon, Space>> \o <<CHOOSE c \in DigitChars : DigitValue(c) = v>>,
              IF normalized THEN IntValue(v) ELSE None, <<"n">>, timestamp)

\* the series of one score: up to three points of different times, in any order
ScoreSeries(name, normalized) ==
    {<<>>}
    \cup {<<ScorePoint(name, v, t, normalized)>> : v \in 0..MaxScore, t \in TrendTimes}
    \cup {<<ScorePoint(name, v[1], t[1], normalized), ScorePoint(name, v[2], t[2], normalized)>> :
              v \in (0..MaxScore) \X (0..MaxScore),
              t \in {x \in TrendTimes \X TrendTimes : x[1] # x[2]}}
    \cup {<<ScorePoint(name, v[1], t[1], normalized), ScorePoint(name, v[2], t[2], normalized),
            ScorePoint(name, v[3], t[3], normalized)>> :
              v \in (0..MaxScore) \X (0..MaxScore) \X (0..MaxScore),
              t \in {x \in TrendTimes \X TrendTimes \X TrendTimes :
                        x[1] # x[2] /\ x[1] # x[3] /\ x[2] # x[3]}}

\* scores_over_time[score_name] for the facts of a timeline
values_of(fs, score_name) ==
    LET dated  == DatedFacts(build_chronological_timeline(fs))
        scores == ScoresOverTime(dated, Len(dated)).value
    IN  IF scores = <<>> THEN <<>> ELSE scores[1].items

InitTrend ==
    /\ TasksIdle
    /\ documents = <<>>
    /\ facts = <<>>
    /\ clinical_timeline = NotBuilt
    /\ feedback_database = <<>>
    /\ application_stats = EmptyDict
    /\ CacheUnused

\* one call per behaviour, on a series gathered from the facts of a timeline
AnalyzeScoreTrend ==
    \E score_name \in ScoreNames, normalized \in BOOLEAN :
        \E fs \in ScoreSeries(score_name, normalized) :
            \E values \in {values_of(fs, score_name)} :
                /\ returned = NoCall
                /\ facts' = fs
                /\ returned' = Returned([score_name |-> score_name,
                                         values     |-> values,
                                         trend      |-> analyze_score_trend(score_name, values)])
                /\ UNCHANGED <<feedback_database, application_stats, taskVars, documents, clinical_timeline,
                               cache_manager, redis>>

NextTrend == AnalyzeScoreTrend

SpecTrend == InitTrend /\ [][NextTrend]_vars

Trended == returned # NoCall

\* the number written last in the text of a score point
PointValue(f) == DigitValue(f.fact[Len(f.fact)])

\* the earliest and the latest point of the series
FirstPoint ==
    facts[CHOOSE i \in 1..Len(facts) : \A j \in 1..Len(facts) : facts[i].timestamp <= facts[j].timestamp]

LastPoint ==
    facts[CHOOSE i \in 1..Len(facts) : \A j \in 1..Len(facts) : facts[i].timestamp >= facts[j].timestamp]

FactTexts == {<<"S", "A", "H">>, <<"s", "a", "h", " ", "g", "r", "a", "d", "e">>, <<"s", "d", "h">>, <<"a", "b", " ", "c", "d">>, <<"c", "d", " ", "a", "b">>, <<"a", "b", "c", "d">>}

PatternTexts == {<<"s", "a", "h">>, <<"S", "D", "H">>, <<"c", "d", " ", "a", "b">>, <<"a", "b", " ", "c", "e">>, <<>>}

MatchTypes == {diagnosis, procedure}

\* the contexts of a pattern: with or without a fact type, a source document
\* and a surrounding text
PatternContexts ==
    {EmptyDict}
    \cup {("fact_type" :> type) : type \in MatchTypes}
    \cup {("fact_type" :> type) @@ ("source_doc" :> <<"o", "p">>) : type \in MatchTypes}
    \cup {("fact_type" :> type) @@ ("surrounding_context" :> <<"p", "o", "s", "t", " ", "o", "p", " ", "d", "a", "y">>) : type \in MatchTypes}

\* the source documents and surrounding texts of a fact
FactSources == {<<"o", "p", " ", "n", "o", "t", "e">>, <<"l", "a", "b">>}

FactContexts == {EmptyDict, ("surrounding_context" :> <<"d", "a", "y", " ", "p", "o", "s", "t", " ", "o", "p">>)}

InitMatch ==
    /\ TasksIdle
    /\ documents = <<>>
    /\ facts = <<>>
    /\ clinical_timeline = NotBuilt
    /\ feedback_database = <<>>
    /\ application_stats = EmptyDict
    /\ CacheUnused

\* one call per behaviour
CalculateMatchConfidence ==
    \E text \in FactTexts, type \in MatchTypes, source_doc \in FactSources, ctx \in FactContexts :
        \E orig \in PatternTexts, context \in PatternContexts :
            \E fact \in {HybridClinicalFact(text, source_doc, At(1, 8), Dec(8, 1), type, ctx)},
               pattern \in {LearningFeedback("unc", orig, <<"x">>, context,
                                             PatternHash(context, orig, <<"x">>), "admin")} :
                /\ returned = NoCall
                /\ facts' = <<fact>>
                /\ feedback_database' = <<pattern>>
                /\ returned' = Returned(calculate_match_confidence(fact, pattern))
                /\ UNCHANGED <<application_stats, taskVars, documents, clinical_timeline,
                               cache_manager, redis>>

NextMatch == CalculateMatchConfidence

SpecMatch == InitMatch /\ [][NextMatch]_vars

Scored == returned # NoCall

\* x is within y, letter case aside
Within(x, y) ==
    \E i \in 1..(Len(y) - Len(x) + 1) :
        \A k \in 1..Len(x) : LowerChar(x[k]) = LowerChar(y[i + k - 1])

FracEq(x, y) == x.n * y.d = y.n * x.d

\* the texts of the call are a and b, letter case aside
TextsAre(a, b) == Lower(facts[1].fact) = a /\ Lower(feedback_database[1].original_extraction) = b

FeedbackRequests ==
    {Submission(<<"a", " ", "b">>, <<"a", "b">>, ("fact_type" :> <<"m">>)),
     Submission(<<"a">>, <<"b", "_", "c">>, ("fact_type" :> <<"m">>)),
     Submission(<<"a", "_", "b">>, <<"c">>, ("fact_type" :> <<"m">>)),
     Submission(<<"a", " ", "b">>, <<"a", "b">>, ("source_doc" :> <<"o", "p">>))}

\* the events log_audit_event appends during a feedback request
feedback_audit_events(user, request) ==
    IF ~check_permission(user, "write")
    THEN <<>>
    ELSE <<[username |-> user, action |-> "SUBMIT_LEARNING_FEEDBACK",
            fact_type |-> Get(request.context, "fact_type", None)]>>

InitSubmit ==
    /\ TasksIdle
    /\ documents = <<>>
    /\ facts = <<>>
    /\ clinical_timeline = NotBuilt
    /\ feedback_database = <<>>
    /\ application_stats = EmptyDict
    /\ CacheUnused

\* FeedbackManager.add_feedback called directly
AddFeedbackCall ==
    \E request \in FeedbackRequests, by \in Actors :
        \E r \in {add_feedback(feedback_database, "unc", request.original, request.correction,
                               request.context, by)} :
            /\ feedback_database' = r.db
            /\ returned' = Returned([via        |-> "add_feedback",
                                     request    |-> request,
                                     pattern_id |-> r.ret])
            /\ UNCHANGED <<application_stats, facts, taskVars, documents, clinical_timeline,
                           cache_manager, redis>>

\* POST /api/learning/feedback
PostLearningFeedback ==
    \E request \in FeedbackRequests, user \in Users :
        \E r \in {submit_learning_feedback(feedback_database, user, request)} :
            /\ feedback_database' = r.db
            /\ returned' = Returned([via       |-> "api",
                                     user      |-> user,
                                     request   |-> request,
                                     status    |-> r.status,
                                     AUDIT_LOG |-> feedback_audit_events(user, request)])
            /\ UNCHANGED <<application_stats, facts, taskVars, documents, clinical_timeline,
                           cache_manager, redis>>

NextSubmit ==
    \/ AddFeedbackCall
    \/ PostLearningFeedback

SpecSubmit == InitSubmit /\ [][NextSubmit]_vars

\* C33: every pattern of the store has a fact type in its context; a
\* submission without one is never stored.
C33_StoredPatternHasFactType ==
    \A j \in 1..Len(feedback_database) : "fact_type" \in DOMAIN feedback_database[j].context

\* the fact type, original text and correction of a pattern and of a request
TripleOfPattern(p) == <<Get(p.context, "fact_type", None), p.original_extraction, p.correction>>
TripleOfRequest(s) == <<Get(s.context, "fact_type", None), s.original, s.correction>>

\* C34: an add_feedback submission whose fact type, original text and
\* correction differ from those of every stored pattern is stored as a new
\* pattern under an id no other pattern has, the others staying as they were.
C34_DistinctTriplesDistinctPatterns ==
    [][returned'.value.via = "add_feedback" =>
          LET s == returned'.value.request
              n == Len(feedback_database)
          IN  (\A j \in 1..n : TripleOfPattern(feedback_database[j]) # TripleOfRequest(s))
                  => /\ Len(feedback_database') = n + 1
                     /\ TripleOfPattern(feedback_database'[n + 1]) = TripleOfRequest(s)
                     /\ \A j \in 1..n :
                            /\ feedback_database'[j] = feedback_database[j]
                            /\ feedback_database'[j].pattern_hash
                                   # feedback_database'[n + 1].pattern_hash]_vars

\* the request of the step is in the store as a pending pattern
StoredPending(db, s) ==
    \E j \in 1..Len(db) :
        /\ TripleOfPattern(db[j]) = TripleOfRequest(s)
        /\ ~Get(db[j].context, "approved", FALSE)
        /\ ~Get(db[j].context, "rejected", FALSE)

\* C37: a feedback request of a user holding 'write' is answered with
\* success exactly when its pattern is in the store as pending, and a
\* request answered with an error leaves the store and the audit log as
\* they were.
C37_FeedbackAllOrNothing ==
    [][returned'.value.via = "api" /\ check_permission(returned'.value.user, "write") =>
          LET r == returned'.value
          IN  /\ r.status = 200 <=> StoredPending(feedback_database', r.request)
              /\ r.status # 200 =>
                     /\ feedback_database' = feedback_database
                     /\ r.AUDIT_LOG = <<>>]_vars


(***************************************************************************)
(* Ratings: one approved pattern rated up and down by update_success_rate, *)
(* with runs of apply_corrections over a fresh extraction between.         *)
(***************************************************************************)
MaxRatings == 6     \* calls of update_success_rate in a behaviour

\* the facts of an extraction, none corrected yet
FreshFacts ==
    [i \in 1..Len(ExtractedFacts) |->
        HybridClinicalFact(ExtractedFacts[i].fact, ExtractedFacts[i].source_doc,
                           ExtractedFacts[i].timestamp, ExtractedFacts[i].confidence,
                           ExtractedFacts[i].fact_type, EmptyDict)]

InitRatings ==
    /\ TasksIdle
    /\ documents = <<>>
    /\ facts = FreshFacts
    /\ clinical_timeline = NotBuilt
    /\ feedback_database = StoredPattern(<<"a", "b">>, <<"b", " ", "a">>, <<"m">>, 0)
    /\ application_stats = EmptyDict
    /\ CacheUnused

\* update_success_rate(pattern_hash, success)
RatePattern ==
    \E h \in PatternIds(feedback_database) \cup {MissingId}, success \in BOOLEAN :
        \E db \in {update_success_rate(feedback_database, h, success)} :
            /\ RateDigits(db) <= MaxRatings
            /\ feedback_database' = db
            /\ UNCHANGED <<application_stats, facts, taskVars, documents, clinical_timeline,
                           cacheVars>>

\* apply_corrections over the facts of a new extraction
CorrectExtraction ==
    \E r \in {apply_corrections(FreshFacts, feedback_database, application_stats)} :
        /\ \A j \in 1..Len(r.db) : r.db[j].applied_count <= MaxCount
        /\ facts' = r.facts
        /\ feedback_database' = r.db
        /\ application_stats' = r.stats
        /\ UNCHANGED <<taskVars, documents, clinical_timeline, cacheVars>>

NextRatings ==
    \/ RatePattern
    \/ CorrectExtraction

SpecRatings == InitRatings /\ [][NextRatings]_vars

\* the pattern's success rate is below 0.70
BelowThreshold(p) == 10 * p.success_rate.num < 7 * Pow10(p.success_rate.exp)

\* the facts a run over a fresh extraction corrects with the store db
CorrectedBy(db) ==
    LET r == apply_corrections(FreshFacts, db, EmptyDict)
    IN  {i \in 1..Len(r.facts) : r.facts[i].correction_applied}

=============================================================================
